---- MODULE Spec2Model ----
(***************************************************************************)
(* Model of the robot-event triage pipeline: TriageService.score_event     *)
(* over AzureAIService.analyze_event, _deduplicate_events,                 *)
(* HistoryService.find_similar_events and SchemaService.normalize_event.   *)
(*                                                                         *)
(* Conventions.  A Python value that may be None, or a dict key that may   *)
(* be missing, is a sequence: <<>> for None / missing, <<v>> for v.        *)
(* String fields that may be None or missing use the strings NoneStr and   *)
(* Absent.  A description of the similarity engine is a sequence of        *)
(* characters; its scores are exact rationals num/den in thousandths.      *)
(***************************************************************************)
EXTENDS Integers, Sequences, FiniteSets, TLC

VARIABLES
    \* --- TriageService.score_event over AzureAIService ---
    service,          \* which collaborator TriageService was built with
    client,           \* AzureAIService.client: TRUE iff not None
    response_cache,   \* AzureAIService.response_cache, in insertion order
    event,            \* the record being scored
    similar_events,   \* the similar-records list handed to score_event
    oracle,           \* what the oracle did on the last call, if it was called
    ai_result,        \* <<>> or <<what analyze_event returned>>
    triage_result,    \* <<>> or <<what score_event returned>>
    raised,           \* TRUE iff the last score_event call raised
    calls,            \* the score_event invocations in flight: where each is
    \* --- _deduplicate_events ---
    events,           \* the list handed to _deduplicate_events
    deduplicated,     \* <<>> before the call, <<returned list>> after
    dedup_stats,      \* <<>> or <<what calculate_deduplication_stats returned>>
    \* --- HistoryService.find_similar_events ---
    current_event,    \* the target record
    all_events,       \* the pool
    limit,            \* the limit argument
    found,            \* <<>> before the call, <<returned list>> after
    \* --- SchemaService.normalize_event ---
    raw_event,        \* the raw mapping
    normalized,       \* <<>> before the call, <<outcome>> after
    candidate,        \* the record handed to validate_schema
    validation,       \* <<>> before the call, <<outcome>> after
    \* --- events_store and the handlers of main.py ---
    events_store,     \* the global list of stored records
    next_id,          \* stands for uuid4: the next fresh record_id
    last_call,        \* the last handler call: its name, input and outcome
    \* --- AzureAIService.response_cache over many calls ---
    inserted          \* the fingerprints stored so far, in the order of storing

triageVars == <<service, client, response_cache, event, similar_events,
                oracle, ai_result, triage_result, raised, calls>>
dedupVars == <<events, deduplicated, dedup_stats>>
historyVars == <<current_event, all_events, limit, found>>
schemaVars == <<raw_event, normalized, candidate, validation>>
storeVars == <<events_store, next_id, last_call>>
cacheVars == <<inserted>>
vars == <<triageVars, dedupVars, historyVars, schemaVars, storeVars,
          cacheVars>>

-----------------------------------------------------------------------------
(* Python helpers *)

NoneStr == "<None>"
Absent == "<absent>"

Min(a, b) == IF a < b THEN a ELSE b

\* round(n / d) for n >= 0 and d > 0, a half going to the even neighbour
RoundDiv(n, d) ==
    LET q == (2 * n + d) \div (2 * d)
    IN  IF (2 * n + d) % (2 * d) = 0 /\ q % 2 = 1 THEN q - 1 ELSE q
Max(a, b) == IF a > b THEN a ELSE b

\* dict.get(key, default) on a string field
Get(v, default) == IF v = Absent THEN default ELSE v

\* truthiness of a string-or-None field
Truthy(v) == v # Absent /\ v # NoneStr /\ v # ""

\* str.upper() on the strings the model uses
Upper(s) ==
    CASE s = "critical" -> "CRITICAL"
      [] s = "high" -> "HIGH"
      [] s = "med" -> "MED"
      [] s = "medium" -> "MEDIUM"
      [] s = "low" -> "LOW"
      [] OTHER -> s

\* str.lower() on the strings the model uses
Lower(s) ==
    CASE s = "CRITICAL" -> "critical"
      [] s = "HIGH" -> "high"
      [] s = "MED" -> "med"
      [] s = "MEDIUM" -> "medium"
      [] s = "LOW" -> "low"
      [] OTHER -> s

\* the sequences of length at most n over S
SeqsUpTo(S, n) == UNION {[1..k -> S] : k \in 0..n}

RECURSIVE SumSeq(_)
SumSeq(s) == IF s = <<>> THEN 0 ELSE Head(s) + SumSeq(Tail(s))

\* Body of a value that is computed once
With(value, Body(_)) == Body(value)

Take(s, n) == SubSeq(s, 1, Min(n, Len(s)))

\* datetime.now().isoformat(), and the calendar date of it
Now == "<now>"
Today == "<today>"

-----------------------------------------------------------------------------
(* AzureAIService (src/backend/services/azure_ai_service.py) *)

\* "SRVO" in error_code, "TEMP" in error_code
HasSRVO(code) == code \in {"SRVO-324", "SRVO-160"}
HasTEMP(code) == code \in {"TEMP-100"}

\* "CRITICAL" in str(event.get("description", "")).upper(); a description is the
\* sequence of its words
DescriptionHasCritical(description) ==
    \E i \in DOMAIN description : Upper(description[i]) = "CRITICAL"

generate_mock_recommendation(priority) ==
    CASE priority = "CRITICAL" -> "Immediate action required."
      [] priority = "HIGH" -> "Schedule maintenance soon."
      [] priority = "MEDIUM" -> "Review during next maintenance window."
      [] OTHER -> "Log for tracking."

mock_analysis(ev, similar) ==
    LET severity == Get(ev.severity, "")
        error_code == Get(ev.error_code, "")
        base == IF severity = "CRITICAL" \/ DescriptionHasCritical(ev.description)
                  THEN [priority |-> "CRITICAL", risk_score |-> 90]
                ELSE IF severity = "ALERT" \/ severity = "WARN"
                  THEN [priority |-> "HIGH", risk_score |-> 70]
                ELSE IF severity = "NOTICE" \/ severity = "INFO"
                  THEN [priority |-> "LOW", risk_score |-> 30]
                ELSE [priority |-> "MEDIUM", risk_score |-> 50]
        byCode == IF Truthy(error_code)
                    THEN (IF HasSRVO(error_code) THEN 10 ELSE 0)
                         + (IF HasTEMP(error_code) THEN 5 ELSE 0)
                    ELSE 0
        high_priority_similar ==
            Cardinality({i \in DOMAIN similar :
                            similar[i].severity \in {"CRITICAL", "ALERT"}})
        bySimilar == IF similar # <<>> /\ high_priority_similar > 0
                       THEN Min(high_priority_similar * 5, 20) ELSE 0
        risk_score == Min(base.risk_score + byCode + bySimilar, 100)
    IN  [priority |-> base.priority,
         risk_score |-> <<risk_score>>,
         recommendation |-> generate_mock_recommendation(base.priority),
         analysis |-> <<[source |-> "mock", priority |-> base.priority,
                         risk_score |-> <<risk_score>>]>>,
         maintenance_report |-> Absent,
         token_usage |-> "mock",
         cached |-> Absent]

\* _parse_ai_response with fixed defaults (50, MEDIUM) for a missing value
\* in place of the values computed from the record
parse_ai_response_FixedDefaults(text, ev) ==
    LET risk0 == IF text.risk = <<>> THEN <<>>
                 ELSE <<Max(0, Min(100, text.risk[1]))>>
        priority0 == IF text.priority = NoneStr THEN NoneStr
                     ELSE Upper(text.priority)
        final == [risk_score |-> IF risk0 = <<>> THEN 50 ELSE risk0[1],
                  priority |-> IF priority0 = NoneStr THEN "MEDIUM"
                               ELSE priority0]
    IN  [priority |-> final.priority,
         risk_score |-> <<final.risk_score>>,
         recommendation |-> IF text.sections THEN "Diagnosis: ... Actions: ..."
                            ELSE "Review event details",
         analysis |-> <<[source |-> "oracle", priority |-> text.priority,
                         risk_score |-> text.risk]>>,
         maintenance_report |-> IF text.sections THEN "sections"
                                ELSE "defaults",
         token_usage |-> Absent,
         cached |-> Absent]

\* An oracle text is what _parse_ai_response reads of it: the number after a
\* RISK_SCORE sentinel (<<>> when the line is missing or malformed), the level
\* after a PRIORITY sentinel (NoneStr likewise), and whether it has the
\* maintenance sections.
parse_ai_response(text, ev) ==
    LET risk0 == IF text.risk = <<>> THEN <<>>
                 ELSE <<Max(0, Min(100, text.risk[1]))>>
        priority0 == IF text.priority = NoneStr THEN NoneStr
                     ELSE Upper(text.priority)
        severity == Lower(Get(ev.severity, ""))
        force_value == IF ev.force_value = <<>> THEN 0 ELSE ev.force_value[1]
        recurrence == IF ev.recurrence_count = <<>> THEN 0
                      ELSE ev.recurrence_count[1]
        base == IF severity = "critical" \/ force_value > 800
                  THEN [priority |-> "CRITICAL", score |-> 90]
                ELSE IF severity = "high" \/ force_value > 600
                  THEN [priority |-> "HIGH", score |-> 75]
                ELSE IF severity = "med" \/ force_value > 300
                  THEN [priority |-> "MEDIUM", score |-> 50]
                ELSE [priority |-> "LOW", score |-> 30]
        base_score == base.score
                      + (IF recurrence > 100 THEN 25
                         ELSE IF recurrence > 50 THEN 20
                         ELSE IF recurrence > 10 THEN 15
                         ELSE IF recurrence > 5 THEN 10
                         ELSE IF recurrence > 1 THEN 5
                         ELSE 0)
        final ==
            IF risk0 = <<>> \/ priority0 = NoneStr
              THEN [risk_score |-> IF risk0 = <<>> THEN base_score ELSE risk0[1],
                    priority |-> IF priority0 = NoneStr THEN base.priority
                                 ELSE priority0]
            ELSE IF severity = "critical" /\ risk0[1] < 80
              THEN [risk_score |-> Max(base_score, risk0[1]),
                    priority |-> "CRITICAL"]
            ELSE IF severity = "high" /\ risk0[1] < 60
              THEN [risk_score |-> Max(base_score, risk0[1]),
                    priority |-> IF priority0 # "CRITICAL" THEN "HIGH"
                                 ELSE priority0]
            ELSE [risk_score |-> risk0[1], priority |-> priority0]
    IN  [priority |-> final.priority,
         risk_score |-> <<final.risk_score>>,
         recommendation |-> IF text.sections THEN "Diagnosis: ... Actions: ..."
                            ELSE "Review event details",
         analysis |-> <<[source |-> "oracle", priority |-> text.priority,
                         risk_score |-> text.risk]>>,
         maintenance_report |-> IF text.sections THEN "sections"
                                ELSE "defaults",
         token_usage |-> Absent,
         cached |-> Absent]

DescPrefix == 100
CacheMax == 1000

\* md5 of the JSON of the five fields: the model keeps the fields themselves
generate_cache_key(ev) ==
    <<Get(ev.event_id, ""), Take(ev.description, DescPrefix),
      Get(ev.severity, ""), Get(ev.error_code, ""), Get(ev.joint, "")>>

CacheHas(cache, key) == \E i \in DOMAIN cache : cache[i].key = key
CacheGet(cache, key) ==
    cache[CHOOSE i \in DOMAIN cache : cache[i].key = key].value

\* response_cache[key] = value on an insertion-ordered dict
DictSet(cache, key, value) ==
    IF CacheHas(cache, key)
      THEN [i \in DOMAIN cache |->
              IF cache[i].key = key THEN [key |-> key, value |-> value]
              ELSE cache[i]]
    ELSE Append(cache, [key |-> key, value |-> value])

\* storing without a limit
CacheStore_NoEviction(cache, key, value) == DictSet(cache, key, value)

\* lines 144-151: store, dropping the oldest entry of a full cache
CacheStore(cache, key, value) ==
    IF Len(cache) < CacheMax THEN DictSet(cache, key, value)
    ELSE DictSet(Tail(cache), key, value)

\* The body of the try block of analyze_event (lines 112-153): the oracle call
\* and the parsing either give a result or raise.
TryOracle(ev, outcome) ==
    IF outcome.kind = "text"
      THEN [exc |-> FALSE,
            result |-> [parse_ai_response(outcome, ev)
                          EXCEPT !.token_usage = "usage", !.cached = "False"]]
    ELSE [exc |-> TRUE, result |-> <<>>]

\* the handler re-raising instead of falling back
OnOracleError_Reraise(ev, similar, cache) ==
    [result |-> <<>>, cache |-> cache, raised |-> TRUE]

\* except Exception: return self._mock_analysis(event, similar_events)
OnOracleError(ev, similar, cache) ==
    [result |-> mock_analysis(ev, similar), cache |-> cache, raised |-> FALSE]

\* analyze_event(event, similar_events, prompt_template) with the oracle's
\* behaviour on this call given as `outcome`
analyze_event(is_available, cache, ev, similar, prompt_template, outcome) ==
    IF ~is_available
      THEN [result |-> mock_analysis(ev, similar), cache |-> cache,
            raised |-> FALSE]
    ELSE
      LET cache_key == generate_cache_key(ev)
          attempt == TryOracle(ev, outcome)
      IN  IF prompt_template = "triage" /\ CacheHas(cache, cache_key)
            THEN [result |-> [CacheGet(cache, cache_key)
                                EXCEPT !.cached = "True"],
                  cache |-> cache, raised |-> FALSE]
          ELSE IF attempt.exc
            THEN OnOracleError(ev, similar, cache)
          ELSE [result |-> attempt.result,
                cache |-> IF prompt_template = "triage"
                            THEN CacheStore(cache, cache_key, attempt.result)
                          ELSE cache,
                raised |-> FALSE]

-----------------------------------------------------------------------------
(* TriageService (src/backend/services/triage_service.py) *)

score_to_priority(score) ==
    IF score >= 80 THEN "CRITICAL"
    ELSE IF score >= 60 THEN "HIGH"
    ELSE IF score >= 40 THEN "MEDIUM"
    ELSE "LOW"

\* str.strip() on the strings the model uses
Strip(s) == IF s = " critical " THEN "critical" ELSE s

TopK == 5
BoostAbove == 800

\* lines 76-80: the average similarity_score (in thousandths) of the first five
\* similar records is above 0.8
SimilarityBoost(similar) ==
    /\ similar # <<>>
    /\ LET top == Take(similar, TopK)
       IN  SumSeq([i \in DOMAIN top |-> top[i].similarity_score])
             > BoostAbove * Min(Len(similar), TopK)

\* BaseScore with the critical floor forgotten
BaseScore_NoCriticalFloor(severity, ai_score, recurrence) ==
    IF severity = "high"
      THEN LET base_score == Max(ai_score, 60)
           IN  IF recurrence > 100 THEN Min(base_score + 15, 100)
               ELSE IF recurrence > 50 THEN Min(base_score + 10, 100)
               ELSE IF recurrence > 10 THEN Min(base_score + 5, 100)
               ELSE base_score
    ELSE IF recurrence > 100 THEN Min(ai_score + 20, 100)
    ELSE IF recurrence > 50 THEN Min(ai_score + 15, 100)
    ELSE IF recurrence > 10 THEN Min(ai_score + 10, 100)
    ELSE ai_score

\* BaseScore with the chronic critical case treated like the other boosts
BaseScore_ChronicCriticalBoosted(severity, ai_score, recurrence) ==
    IF severity = "critical"
      THEN LET base_score == Max(ai_score, 80)
           IN  IF recurrence > 100 THEN Min(base_score + 20, 100)
               ELSE IF recurrence > 50 THEN Min(base_score + 10, 100)
               ELSE IF recurrence > 10 THEN Min(base_score + 5, 100)
               ELSE base_score
    ELSE IF severity = "high"
      THEN LET base_score == Max(ai_score, 60)
           IN  IF recurrence > 100 THEN Min(base_score + 15, 100)
               ELSE IF recurrence > 50 THEN Min(base_score + 10, 100)
               ELSE IF recurrence > 10 THEN Min(base_score + 5, 100)
               ELSE base_score
    ELSE IF recurrence > 100 THEN Min(ai_score + 20, 100)
    ELSE IF recurrence > 50 THEN Min(ai_score + 15, 100)
    ELSE IF recurrence > 10 THEN Min(ai_score + 10, 100)
    ELSE ai_score

\* lines 45-74: the severity floor and the recurrence boost
BaseScore(severity, ai_score, recurrence) ==
    IF severity = "critical"
      THEN LET base_score == Max(ai_score, 80)
           IN  IF recurrence > 100 THEN 95
               ELSE IF recurrence > 50 THEN Min(base_score + 10, 100)
               ELSE IF recurrence > 10 THEN Min(base_score + 5, 100)
               ELSE base_score
    ELSE IF severity = "high"
      THEN LET base_score == Max(ai_score, 60)
           IN  IF recurrence > 100 THEN Min(base_score + 15, 100)
               ELSE IF recurrence > 50 THEN Min(base_score + 10, 100)
               ELSE IF recurrence > 10 THEN Min(base_score + 5, 100)
               ELSE base_score
    ELSE IF recurrence > 100 THEN Min(ai_score + 20, 100)
    ELSE IF recurrence > 50 THEN Min(ai_score + 15, 100)
    ELSE IF recurrence > 10 THEN Min(ai_score + 10, 100)
    ELSE ai_score

\* FinalScore clamped below only
FinalScore_NoUpperClamp(base_score) == Max(base_score, 0)

\* line 83
FinalScore(base_score) == Min(Max(base_score, 0), 100)

\* Priority with the oracle trusted for high severity
Priority_HighTrustsOracle(severity, ai_priority, final_score) ==
    IF severity = "critical" THEN "CRITICAL"
    ELSE IF ai_priority # "" THEN ai_priority
    ELSE score_to_priority(final_score)

\* Priority with the threshold mapping used for every record that is
\* neither critical nor high
Priority_ThresholdsFirst(severity, ai_priority, final_score) ==
    IF severity = "critical" THEN "CRITICAL"
    ELSE IF severity = "high"
      THEN (IF ai_priority # "CRITICAL" THEN "HIGH" ELSE ai_priority)
    ELSE score_to_priority(final_score)

\* lines 85-92
Priority(severity, ai_priority, final_score) ==
    IF severity = "critical" THEN "CRITICAL"
    ELSE IF severity = "high"
      THEN (IF ai_priority # "CRITICAL" THEN "HIGH" ELSE ai_priority)
    ELSE IF ai_priority # "" THEN ai_priority
    ELSE score_to_priority(final_score)

\* score_event special-casing an unavailable oracle: the heuristic's
\* risk_score is dropped for the default 50
score_event_IgnoresHeuristic(ev, similar, ai, ai_available) ==
    LET ai_score == IF ai.risk_score = <<>> \/ ~ai_available THEN 50
                    ELSE ai.risk_score[1]
        severity == Strip(Lower(Get(ev.severity, "")))
        recurrence == IF ev.recurrence_count = <<>> THEN 0
                      ELSE ev.recurrence_count[1]
        base_score == BaseScore(severity, ai_score, recurrence)
                      + (IF SimilarityBoost(similar) THEN 10 ELSE 0)
        final_score == FinalScore(base_score)
        ai_priority == Upper(Get(ai.priority, ""))
    IN  [score |-> final_score,
         priority |-> Priority(severity, ai_priority, final_score),
         recommendation |-> Get(ai.recommendation, "Monitor the situation"),
         analysis |-> IF ai.analysis = <<>>
                        THEN [source |-> "Event analyzed", priority |-> "",
                              risk_score |-> <<>>]
                      ELSE ai.analysis[1],
         maintenance_report |-> Get(ai.maintenance_report, "{}"),
         ai_metadata |-> [token_usage |-> Get(ai.token_usage, "{}"),
                          ai_available |-> ai_available]]

\* score_event after the await: `ai` is what analyze_event returned
score_event(ev, similar, ai, ai_available) ==
    LET ai_score == IF ai.risk_score = <<>> THEN 50 ELSE ai.risk_score[1]
        severity == Strip(Lower(Get(ev.severity, "")))
        recurrence == IF ev.recurrence_count = <<>> THEN 0
                      ELSE ev.recurrence_count[1]
        base_score == BaseScore(severity, ai_score, recurrence)
                      + (IF SimilarityBoost(similar) THEN 10 ELSE 0)
        final_score == FinalScore(base_score)
        ai_priority == Upper(Get(ai.priority, ""))
    IN  [score |-> final_score,
         priority |-> Priority(severity, ai_priority, final_score),
         recommendation |-> Get(ai.recommendation, "Monitor the situation"),
         analysis |-> IF ai.analysis = <<>>
                        THEN [source |-> "Event analyzed", priority |-> "",
                              risk_score |-> <<>>]
                      ELSE ai.analysis[1],
         maintenance_report |-> Get(ai.maintenance_report, "{}"),
         ai_metadata |-> [token_usage |-> Get(ai.token_usage, "{}"),
                          ai_available |-> ai_available]]

-----------------------------------------------------------------------------
(* Scoring one record: the inputs *)

MaxSimilar == 2

Recurrences == {1, 2, 6, 11, 51, 101, 150}
ErrorCodes == {NoneStr, "SRVO-324", "TEMP-100"}
Descriptions == {<<"torque", "limit">>, <<"critical", "collision">>}

\* severity and force_value of a stored record: with a force value the
\* severity is the one _calculate_severity derives from it
SeverityForce ==
    {<<s, <<>>>> : s \in {"critical", "high", "med", "low"}}
      \cup {<<"critical", <<900>>>>}

\* the records of events_store that score_triage can hand to score_event
StoredEvents ==
    {[event_id |-> "e1", joint |-> "J3", severity |-> sf[1],
      force_value |-> sf[2], recurrence_count |-> <<n>>, error_code |-> c,
      description |-> d] :
        sf \in SeverityForce, n \in Recurrences, c \in ErrorCodes,
        d \in Descriptions}

\* score_triage's fallback: event_request.dict(), which has no severity,
\* recurrence_count, force_value, error_code or joint
RequestEvents ==
    {[event_id |-> "e1", joint |-> Absent, severity |-> Absent,
      force_value |-> <<>>, recurrence_count |-> <<>>, error_code |-> Absent,
      description |-> d] : d \in Descriptions}

TriageEvents == StoredEvents \cup RequestEvents

\* find_similar_events returns copies of stored records, best first
SimilarRecords ==
    {[similarity_score |-> sc, severity |-> "critical"] : sc \in {700, 900}}
SimilarLists ==
    {l \in SeqsUpTo(SimilarRecords, MaxSimilar) :
        \A i \in 1..(Len(l) - 1) :
            l[i].similarity_score >= l[i + 1].similarity_score}

\* What the oracle does when called: it raises, it answers without content,
\* or it answers a text.
NotCalled == [kind |-> "none", risk |-> <<>>, priority |-> NoneStr,
              sections |-> FALSE]
OracleOutcomes ==
    {[kind |-> k, risk |-> <<>>, priority |-> NoneStr, sections |-> FALSE] :
        k \in {"error", "malformed"}}
      \cup [kind : {"text"},
            risk : {<<>>, <<0>>, <<10>>, <<59>>, <<79>>, <<80>>, <<250>>},
            priority : {NoneStr, "CRITICAL", "MEDIUM", "low"},
            sections : BOOLEAN]

\* A test double in place of AzureAIService (TriageService takes its
\* collaborator as a constructor argument): analyze_event returns a dict of
\* the double's choosing.
HeuristicValues(ev, similar) ==
    [mock_analysis(ev, similar) EXCEPT !.token_usage = Absent]
StubResults(ev, similar) ==
    [priority : {Absent, "", "critical", "CRITICAL", "HIGH", "LOW", "urgent"},
     risk_score : {<<>>, <<-20>>, <<0>>, <<50>>, <<79>>, <<130>>},
     recommendation : {Absent}, analysis : {<<>>},
     maintenance_report : {Absent}, token_usage : {Absent},
     cached : {Absent}]
      \cup {HeuristicValues(ev, similar)}

\* the variables of the other components, at rest; last_call is the last
\* handler that ran, the status it answered, the status of each file it
\* read, the records normalize_event returned to it and the length of
\* events_store when it was called
DedupIdle == events = <<>> /\ deduplicated = <<>> /\ dedup_stats = <<>>
HistoryIdle ==
    current_event = <<>> /\ all_events = <<>> /\ limit = 0 /\ found = <<>>
SchemaIdle ==
    /\ raw_event = <<>> /\ normalized = <<>>
    /\ candidate = <<>> /\ validation = <<>>
NoCall == [op |-> "none", status |-> "none", files |-> <<>>,
           skip_ai |-> FALSE, produced |-> <<>>, before |-> 0]
StoreIdle ==
    events_store = <<>> /\ next_id = 1 /\ last_call = NoCall
      /\ inserted = <<>>

InitTriage ==
    /\ service \in {"azure", "stub"}
    /\ client \in BOOLEAN
    /\ service = "stub" => client
    /\ response_cache = <<>>
    /\ event \in TriageEvents
    /\ similar_events \in SimilarLists
    /\ oracle = NotCalled
    /\ ai_result = <<>>
    /\ triage_result = <<>>
    /\ raised = FALSE
    /\ calls = <<>>
    /\ DedupIdle /\ HistoryIdle /\ SchemaIdle /\ StoreIdle

\* the chat-completions call is reached: the client exists and the cache has
\* no entry for the record
OracleIsCalled ==
    client /\ ~CacheHas(response_cache, generate_cache_key(event))

\* score_event(event, similar_events) on the real AzureAIService
ScoreEventAzure ==
    /\ service = "azure"
    /\ \E outcome \in (IF OracleIsCalled THEN OracleOutcomes ELSE {NotCalled}) :
         LET a == analyze_event(client, response_cache, event, similar_events,
                                "triage", outcome)
         IN  /\ oracle' = outcome
             /\ response_cache' = a.cache
             /\ raised' = a.raised
             /\ ai_result' = IF a.raised THEN <<>> ELSE <<a.result>>
             /\ triage_result' =
                  IF a.raised THEN <<>>
                  ELSE <<score_event(event, similar_events, a.result, client)>>
    /\ UNCHANGED <<service, client, event, similar_events, calls>>
    /\ UNCHANGED <<dedupVars, historyVars, schemaVars, storeVars, cacheVars>>

\* score_event(event, similar_events) on a test double
ScoreEventStub ==
    /\ service = "stub"
    /\ triage_result = <<>>
    /\ \E r \in StubResults(event, similar_events) :
         /\ ai_result' = <<r>>
         /\ triage_result' = <<score_event(event, similar_events, r, TRUE)>>
    /\ raised' = FALSE
    /\ UNCHANGED <<service, client, response_cache, event, similar_events,
                   oracle, calls>>
    /\ UNCHANGED <<dedupVars, historyVars, schemaVars, storeVars, cacheVars>>

NextTriage == ScoreEventAzure \/ ScoreEventStub

SpecTriage == InitTriage /\ [][NextTriage]_vars

-----------------------------------------------------------------------------
(* Claims about score_event and analyze_event, under SpecTriage *)

\* score_event has been called and has returned or raised
Scored == triage_result # <<>> \/ raised

EventSeverity == Strip(Lower(Get(event.severity, "")))

\* the oracle's priority as score_event reads it
AiPriority == Upper(Get(ai_result[1].priority, ""))

\* C1: a record of severity critical is scored at least 80 with priority
\* CRITICAL, whatever analyze_event returned (a risk_score of 0, any priority,
\* or a result without risk_score or priority), for every recurrence_count
\* and every similar-records list.
C1_CriticalFloor ==
    (Scored /\ EventSeverity = "critical")
      => /\ triage_result # <<>>
         /\ triage_result[1].score >= 80
         /\ triage_result[1].priority = "CRITICAL"

\* a critical record for which the oracle said risk 0, priority LOW
C1_Witness ==
    /\ triage_result # <<>>
    /\ EventSeverity = "critical"
    /\ ai_result[1].risk_score = <<0>>
    /\ ai_result[1].priority = "LOW"
    /\ triage_result[1].score = 80
    /\ triage_result[1].priority = "CRITICAL"

\* C2: a record of severity high is scored at least 60; its priority is
\* CRITICAL when the oracle's priority is CRITICAL and HIGH otherwise, so
\* never MEDIUM or LOW.
C2_HighFloor ==
    (Scored /\ EventSeverity = "high")
      => /\ triage_result # <<>>
         /\ triage_result[1].score >= 60
         /\ triage_result[1].priority =
              (IF AiPriority = "CRITICAL" THEN "CRITICAL" ELSE "HIGH")

\* a high record for which the oracle said risk 0, priority LOW
C2_Witness ==
    /\ triage_result # <<>>
    /\ EventSeverity = "high"
    /\ ai_result[1].risk_score = <<0>>
    /\ ai_result[1].priority = "LOW"
    /\ triage_result[1].score = 60
    /\ triage_result[1].priority = "HIGH"

\* C3: the score score_event returns is within [0,100], for every severity,
\* every oracle risk_score (below 0 and above 100 included), every
\* recurrence_count, with and without the similarity boost.
C3_ScoreInRange ==
    triage_result # <<>>
      => triage_result[1].score >= 0 /\ triage_result[1].score <= 100

\* the oracle said 130 and the similarity boost applies
C3_Witness ==
    /\ triage_result # <<>>
    /\ ai_result[1].risk_score = <<130>>
    /\ SimilarityBoost(similar_events)
    /\ triage_result[1].score = 100

\* C4: analyze_event never raises.  With no client it returns the local
\* heuristic; when the oracle call or the parsing of its answer raises, the
\* error is caught and the local heuristic is returned; score_event then
\* returns a result with score and priority.
C4_AnalyzeNeverRaises ==
    (service = "azure" /\ Scored)
      => /\ ~raised
         /\ triage_result # <<>>
         /\ ~client => ai_result[1] = mock_analysis(event, similar_events)
         /\ oracle.kind \in {"error", "malformed"}
              => ai_result[1] = mock_analysis(event, similar_events)
         /\ triage_result[1].score \in 0..100
         /\ triage_result[1].priority \in {"CRITICAL", "HIGH", "MEDIUM", "LOW"}

\* the oracle call raised and score_event returned the heuristic's result
C4_Witness ==
    /\ service = "azure" /\ client
    /\ oracle.kind = "error"
    /\ triage_result # <<>>
    /\ ai_result[1].token_usage = "mock"

\* the fields of the TriageResult of the design: score, priority,
\* recommendation, narrative and sections
TriageFields(r) ==
    [score |-> r.score, priority |-> r.priority,
     recommendation |-> r.recommendation, analysis |-> r.analysis,
     maintenance_report |-> r.maintenance_report]

\* what score_event returns for the record when the oracle is unavailable
ScoredUnavailable ==
    score_event(event, similar_events,
                analyze_event(FALSE, <<>>, event, similar_events, "triage",
                              NotCalled).result,
                FALSE)

\* C5: scoring a record with an available oracle that returns exactly the
\* heuristic's priority, risk_score, recommendation and analysis gives the
\* same TriageResult as scoring it with the oracle unavailable.
C5_UnavailableEquivalence ==
    (/\ service = "stub"
     /\ triage_result # <<>>
     /\ ai_result[1] = HeuristicValues(event, similar_events))
      => TriageFields(triage_result[1]) = TriageFields(ScoredUnavailable)

\* a critical record scored through an oracle that returned the heuristic's
\* own values
C5_Witness ==
    /\ service = "stub"
    /\ triage_result # <<>>
    /\ ai_result[1] = HeuristicValues(event, similar_events)
    /\ EventSeverity = "critical"
    /\ triage_result[1].score = 80

-----------------------------------------------------------------------------
(* _deduplicate_events (src/backend/main.py) *)

MaxEvents == 4

Joints == {"J3", "UNKNOWN"}
Timestamps == {"2025-11-17T09:59:45", "2025-11-17T23:10:00",
               "2025-11-18T00:00:00", "17/11/2025 9am", NoneStr}

\* datetime.fromisoformat(timestamp.replace("Z", "+00:00")).date().isoformat(),
\* "unknown" when that raises (a string that is no ISO date, or None)
DateKey(timestamp) ==
    CASE timestamp \in {"2025-11-17T09:59:45", "2025-11-17T23:10:00",
                        "2025-11-17T09:59:45Z"} -> "2025-11-17"
      [] timestamp \in {"2025-11-18T00:00:00", "2025-11-18"} -> "2025-11-18"
      [] timestamp = Now -> Today
      [] OTHER -> "unknown"

\* key = f"{joint}_{date_key}"
GroupKey(e) == <<Get(e.joint, "UNKNOWN"), DateKey(Get(e.timestamp, ""))>>

\* the keys of event_groups, a dict: in the order of their first insertion
RECURSIVE GroupKeys(_)
GroupKeys(evs) ==
    IF evs = <<>> THEN <<>>
    ELSE LET before == GroupKeys(SubSeq(evs, 1, Len(evs) - 1))
             key == GroupKey(evs[Len(evs)])
         IN  IF \E i \in DOMAIN before : before[i] = key THEN before
             ELSE Append(before, key)

\* event_groups[key]: the events of the key, in input order
RECURSIVE Group(_, _)
Group(evs, key) ==
    IF evs = <<>> THEN <<>>
    ELSE IF GroupKey(Head(evs)) = key
      THEN <<Head(evs)>> \o Group(Tail(evs), key)
    ELSE Group(Tail(evs), key)

\* Marked with every member counted but the record itself
Marked_CountsOthers(group) ==
    [i \in DOMAIN group |-> [group[i] EXCEPT !.recurrence_count = Len(group) - 1]]

\* lines 642-650: every member of a group gets the group's size
Marked(group) ==
    IF Len(group) > 1
      THEN [i \in DOMAIN group |->
              [group[i] EXCEPT !.recurrence_count = Len(group)]]
    ELSE <<[group[1] EXCEPT !.recurrence_count = 1]>>

RECURSIVE Flatten(_)
Flatten(lists) ==
    IF lists = <<>> THEN <<>> ELSE Head(lists) \o Flatten(Tail(lists))

\* a true deduplication: one record kept for each group
deduplicate_events_KeepsFirst(evs) ==
    LET keys == GroupKeys(evs)
    IN  Flatten([k \in DOMAIN keys |-> <<Marked(Group(evs, keys[k]))[1]>>])

deduplicate_events(evs) ==
    LET keys == GroupKeys(evs)
    IN  Flatten([k \in DOMAIN keys |-> Marked(Group(evs, keys[k]))])

\* the lists process_upload and batch_process_all hand over: records fresh
\* from normalize_event (recurrence_count 0), record_id unique
EventLists ==
    {[i \in DOMAIN l |-> [record_id |-> i, joint |-> l[i][1],
                          timestamp |-> l[i][2], recurrence_count |-> 0]] :
        l \in SeqsUpTo(Joints \X Timestamps, MaxEvents)}

TriageIdle ==
    /\ service = "azure" /\ client = FALSE /\ response_cache = <<>>
    /\ event = <<>> /\ similar_events = <<>> /\ oracle = NotCalled
    /\ ai_result = <<>> /\ triage_result = <<>> /\ raised = FALSE
    /\ calls = <<>>

InitDedup ==
    /\ events \in EventLists
    /\ deduplicated = <<>>
    /\ dedup_stats = <<>>
    /\ TriageIdle /\ HistoryIdle /\ SchemaIdle /\ StoreIdle

Deduplicate ==
    /\ deduplicated = <<>>
    /\ deduplicated' = <<deduplicate_events(events)>>
    /\ UNCHANGED <<events, dedup_stats>>
    /\ UNCHANGED <<triageVars, historyVars, schemaVars, storeVars, cacheVars>>

\* ValidationService.calculate_deduplication_stats
\* (src/backend/services/validation_service.py).  The try statement of lines
\* 148-155 stands after the loop of lines 144-147, and the two lines that
\* file an event under its key are inside the except clause: only the last
\* event is looked at, and it is filed only when its timestamp does not
\* parse.  event_groups is the list of its keys with their events;
\* duplication_rate is in hundredths of a percent.
calculate_deduplication_stats(evs) ==
    IF evs = <<>>
      THEN [total_events |-> 0, unique_events |-> 0, duplicates |-> 0,
            duplication_rate |-> <<>>, recurrence_stats |-> {}]
    ELSE
      LET last == evs[Len(evs)]
          joint == Get(last.joint, "UNKNOWN")
          raises == DateKey(Get(last.timestamp, "")) = "unknown"
          event_groups ==
              IF raises
                THEN <<[key |-> <<joint, "unknown">>, group |-> <<last>>]>>
              ELSE <<>>
          total == Len(evs)
          unique == Len(event_groups)
          duplicates == total - unique
      IN  [total_events |-> total,
           unique_events |-> unique,
           duplicates |-> duplicates,
           duplication_rate |-> <<RoundDiv(duplicates * 10000, total)>>,
           recurrence_stats |->
               {<<event_groups[g].key, Len(event_groups[g].group)>> :
                   g \in {h \in DOMAIN event_groups :
                             Len(event_groups[h].group) > 1}}]

CalculateStats ==
    /\ dedup_stats = <<>>
    /\ dedup_stats' = <<calculate_deduplication_stats(events)>>
    /\ UNCHANGED <<events, deduplicated>>
    /\ UNCHANGED <<triageVars, historyVars, schemaVars, storeVars, cacheVars>>

NextDedup == Deduplicate \/ CalculateStats

SpecDedup == InitDedup /\ [][NextDedup]_vars

(* Claims about _deduplicate_events, under SpecDedup *)

\* the bucket of a record as the design states it: its joint and the calendar
\* date of its timestamp, every unparseable timestamp in the bucket "unknown"
Bucket(e) == <<e.joint, DateKey(e.timestamp)>>
BucketSize(e) ==
    Cardinality({j \in DOMAIN events : Bucket(events[j]) = Bucket(e)})

\* C6: after _deduplicate_events every record's recurrence_count is the
\* number of input records sharing its (joint, calendar date) bucket, with
\* the unparseable timestamps in the bucket "unknown"; so the members of a
\* group agree and a lone record has count 1.
C6_RecurrenceIsGroupSize ==
    deduplicated # <<>>
      => \A k \in DOMAIN deduplicated[1] :
            LET r == deduplicated[1][k]
            IN  /\ r.recurrence_count = BucketSize(r)
                /\ r.recurrence_count >= 1
                /\ \A m \in DOMAIN deduplicated[1] :
                      Bucket(deduplicated[1][m]) = Bucket(r)
                        => deduplicated[1][m].recurrence_count
                             = r.recurrence_count

\* three records of J3 dated 2025-11-17, each with count 3, beside a lone
\* record with an unparseable timestamp
C6_Witness ==
    /\ deduplicated # <<>>
    /\ Len(deduplicated[1]) = 4
    /\ Cardinality({k \in 1..4 :
          /\ Bucket(deduplicated[1][k]) = <<"J3", "2025-11-17">>
          /\ deduplicated[1][k].recurrence_count = 3}) = 3
    /\ \E k \in 1..4 :
          /\ Bucket(deduplicated[1][k]) = <<"J3", "unknown">>
          /\ deduplicated[1][k].recurrence_count = 1

\* the input position of the record at output position k
InputIndex(k) == deduplicated[1][k].record_id
FirstOfBucket(e) ==
    CHOOSE j \in DOMAIN events :
        /\ Bucket(events[j]) = Bucket(e)
        /\ \A h \in 1..(j - 1) : Bucket(events[h]) # Bucket(e)

-----------------------------------------------------------------------------
(* HistoryService.find_similar_events (src/backend/services/history_service.py) *)

MaxPool == 3
DefaultLimit == 10
Limits == {1, 2, DefaultLimit}

\* str.lower() on a text, over the alphabet the model uses
LowerText(t) ==
    [i \in DOMAIN t |->
        CASE t[i] = "B" -> "b"
          [] t[i] = "J" -> "j"
          [] t[i] = "N" -> "n"
          [] OTHER -> t[i]]

\* `term in text`
Contains(text, term) ==
    \E i \in 1..(Len(text) - Len(term) + 1) :
        SubSeq(text, i, i + Len(term) - 1) = term

\* the entries of important_terms that the model's alphabet can spell
important_terms ==
    {<<"b", "e", "l", "t">>, <<"a", "x", "i", "s">>,
     <<"c", "o", "l", "l", "i", "s", "i", "o", "n">>,
     <<"t", "o", "r", "q", "u", "e">>}

extract_keywords(text) ==
    {term \in important_terms : Contains(LowerText(text), term)}

\* length of the longest common run of a from i and b from j
MatchLen(a, b, i, j) ==
    CHOOSE k \in 0..Min(Len(a) - i + 1, Len(b) - j + 1) :
        /\ \A h \in 0..(k - 1) : a[i + h] = b[j + h]
        /\ \/ k = Min(Len(a) - i + 1, Len(b) - j + 1)
           \/ a[i + k] # b[j + k]

\* SequenceMatcher.find_longest_match: a longest block, of those the one
\* starting earliest in a, of those the one starting earliest in b
find_longest_match(a, b) ==
    LET starts == (1..Len(a)) \X (1..Len(b))
        size == [m \in starts |-> MatchLen(a, b, m[1], m[2])]
        longest == CHOOSE k \in {size[m] : m \in starts} :
                      \A n \in starts : size[n] <= k
        i == CHOOSE i \in 1..Len(a) :
                /\ \E j \in 1..Len(b) : size[<<i, j>>] = longest
                /\ \A h \in 1..(i - 1), j \in 1..Len(b) :
                      size[<<h, j>>] < longest
        j == CHOOSE j \in 1..Len(b) :
                /\ size[<<i, j>>] = longest
                /\ \A h \in 1..(j - 1) : size[<<i, h>>] < longest
    IN  [i |-> i, j |-> j, size |-> longest]

\* SequenceMatcher.get_matching_blocks, summed: the longest block, then the
\* same to its left and to its right
RECURSIVE Matches(_, _)
Matches(a, b) ==
    IF a = <<>> \/ b = <<>> THEN 0
    ELSE LET m == find_longest_match(a, b)
         IN  IF m.size = 0 THEN 0
             ELSE m.size
                  + Matches(SubSeq(a, 1, m.i - 1), SubSeq(b, 1, m.j - 1))
                  + Matches(SubSeq(a, m.i + m.size, Len(a)),
                            SubSeq(b, m.j + m.size, Len(b)))

\* the descriptions the model draws from
Texts == {<<"B", "e", "l", "t">>, <<"b", "e", "l", "t", "s">>,
          <<"b", "o", "l", "t">>}

\* Matches, computed once for each pair of these descriptions
MatchesOfTexts ==
    [a \in {LowerText(t) : t \in Texts}, b \in {LowerText(t) : t \in Texts}
        |-> Matches(a, b)]

\* the characters of the descriptions of the stored records
Chars(description) ==
    CASE description = "J3 collision 900N"
           -> <<"J", "3", " ", "c", "o", "l", "l", "i", "s", "i", "o", "n",
                " ", "9", "0", "0", "N">>
      [] description = "torque limit"
           -> <<"t", "o", "r", "q", "u", "e", " ", "l", "i", "m", "i", "t">>
      [] description = "overload 12000 N"
           -> <<"o", "v", "e", "r", "l", "o", "a", "d", " ", "1", "2", "0",
                "0", "0", " ", "N">>
      [] OTHER -> <<>>
StoreTexts ==
    {LowerText(Chars(d)) :
        d \in {"J3 collision 900N", "torque limit", "overload 12000 N"}}
MatchesOfStoreTexts == [a \in StoreTexts, b \in StoreTexts |-> Matches(a, b)]

\* the M of SequenceMatcher(None, a, b).ratio() = 2.0 * M / T
MatchingChars(a, b) ==
    IF <<a, b>> \in DOMAIN MatchesOfTexts THEN MatchesOfTexts[a, b]
    ELSE IF <<a, b>> \in DOMAIN MatchesOfStoreTexts
      THEN MatchesOfStoreTexts[a, b]
    ELSE Matches(a, b)

\* event.get(f, "") or event.get("original_event", {}).get(f, ""), for the
\* string fields event_type and error_code
Field(ev, f) ==
    IF Truthy(ev[f]) \/ ev.original_event = <<>> THEN Get(ev[f], "")
    ELSE Get(ev.original_event[1][f], "")

\* the same for the description, a text: "" is <<>>
Description(ev) ==
    IF ev.description # <<>> \/ ev.original_event = <<>> THEN ev.description
    ELSE ev.original_event[1].description

\* event.get("event_id") or event.get("original_event", {}).get("event_id")
EventId(ev) ==
    IF ev.event_id # <<>> \/ ev.original_event = <<>> THEN ev.event_id
    ELSE ev.original_event[1].event_id

\* line 49 with both ids required to match
IsSelf_BothIds(cur, ev) ==
    /\ EventId(cur) # <<>>
    /\ EventId(ev) = EventId(cur)
    /\ cur.record_id # <<>>
    /\ ev.record_id = cur.record_id

\* line 49: the pool record is the target
IsSelf(cur, ev) ==
    \/ EventId(cur) # <<>> /\ EventId(ev) = EventId(cur)
    \/ cur.record_id # <<>> /\ ev.record_id = cur.record_id

\* lines 52-89: similarity_score, in thousandths, as the fraction num/den
Similarity(cur, ev) ==
    LET current_type == Field(cur, "event_type")
        event_type == Field(ev, "event_type")
        current_desc == LowerText(Description(cur))
        event_desc == LowerText(Description(ev))
        current_error_code == Field(cur, "error_code")
        event_error_code == Field(ev, "error_code")
        both == current_desc # <<>> /\ event_desc # <<>>
        den == IF both THEN Len(current_desc) + Len(event_desc) ELSE 1
        common_keywords ==
            extract_keywords(current_desc) \cap extract_keywords(event_desc)
        weights ==
            (IF Truthy(event_type) /\ Truthy(current_type)
                  /\ event_type = current_type THEN 400 ELSE 0)
            + (IF Truthy(current_error_code) /\ Truthy(event_error_code)
                    /\ event_error_code = current_error_code
                 THEN 200 ELSE 0)
            + (IF Truthy(cur.severity) /\ Truthy(ev.severity)
                    /\ ev.severity = cur.severity THEN 100 ELSE 0)
            + Min(Cardinality(common_keywords) * 50, 200)
    IN  [num |-> weights * den
                   + (IF both THEN 300 * 2 * MatchingChars(current_desc, event_desc)
                      ELSE 0),
         den |-> den]

\* self.similarity_threshold = 0.3, in thousandths
similarity_threshold == 300

\* round(x * 1000) for x = num/den thousandths, halves to the even neighbour
Round3(x) ==
    LET q == (2 * x.num + x.den) \div (2 * x.den)
    IN  IF (2 * x.num + x.den) % (2 * x.den) = 0 /\ q % 2 = 1 THEN q - 1
        ELSE q

\* lines 44-95: the pool records that are not the target and score at least
\* the threshold, each copied with its rounded score, in pool order
RECURSIVE Candidates(_, _)
Candidates(cur, pool) ==
    IF pool = <<>> THEN <<>>
    ELSE LET ev == Head(pool)
             score == Similarity(cur, ev)
             rest == Candidates(cur, Tail(pool))
         IN  IF IsSelf(cur, ev) THEN rest
             ELSE IF score.num >= similarity_threshold * score.den
               THEN <<[event |-> ev, similarity_score |-> Round3(score)]>>
                    \o rest
             ELSE rest

\* a descending sort that puts a record before its equals
InsertDesc_BeforeEquals(x, sorted) ==
    LET ahead == Cardinality({i \in DOMAIN sorted :
                    sorted[i].similarity_score > x.similarity_score})
    IN  SubSeq(sorted, 1, ahead) \o <<x>>
          \o SubSeq(sorted, ahead + 1, Len(sorted))

\* list.sort(key=similarity_score, reverse=True) is stable: a record goes
\* behind every record sorted so far whose score is not smaller
InsertDesc(x, sorted) ==
    LET ahead == Cardinality({i \in DOMAIN sorted :
                    sorted[i].similarity_score >= x.similarity_score})
    IN  SubSeq(sorted, 1, ahead) \o <<x>>
          \o SubSeq(sorted, ahead + 1, Len(sorted))

RECURSIVE SortDesc(_)
SortDesc(s) ==
    IF s = <<>> THEN <<>>
    ELSE InsertDesc(s[Len(s)], SortDesc(SubSeq(s, 1, Len(s) - 1)))

\* find_similar_events without the sort of line 98
find_similar_events_Unsorted(cur, pool, lim) ==
    Take(Candidates(cur, pool), lim)

find_similar_events(cur, pool, lim) ==
    Take(SortDesc(Candidates(cur, pool)), lim)

\* what the normalizer and the ETL give a record: error logs carry an error
\* code, alerts a severity of their own
Kinds == {<<"error_log", "SRVO-324", "high">>, <<"system_alert", NoneStr, "low">>}

\* how the records of a pool are identified: record_id is a fresh uuid;
\* event_id is the raw event's own, missing from the raw event, or the same
\* for records of two files read within one second
IdSchemes == {"own", "none", "shared"}
EventIdOf(scheme, i) ==
    CASE scheme = "own" -> <<i>>
      [] scheme = "none" -> <<>>
      [] OTHER -> <<1>>

\* a record as normalize_event builds it, original_event and all
StoredRecord(i, scheme, kind, text) ==
    [record_id |-> <<i>>, event_id |-> EventIdOf(scheme, i),
     event_type |-> kind[1], description |-> text,
     error_code |-> kind[2], severity |-> kind[3],
     original_event |-> <<[event_id |-> EventIdOf(scheme, i),
                           event_type |-> kind[1], description |-> text,
                           error_code |-> kind[2]]>>]

Pools ==
    {[i \in DOMAIN p |-> StoredRecord(i, scheme, p[i][1], p[i][2])] :
        p \in SeqsUpTo(Kinds \X Texts, MaxPool), scheme \in IdSchemes}

\* EventRequest.dict(): an event id, the store's first (1) or none of the
\* store's (0), and no
\* record_id, error_code, severity or original_event
Requests ==
    {[record_id |-> <<>>, event_id |-> <<id>>, event_type |-> r[1],
      description |-> r[2], error_code |-> Absent, severity |-> Absent,
      original_event |-> <<>>] :
        id \in {0, 1},
        r \in {<<"error_log", <<"B", "e", "l", "t">>>>,
               <<"system_alert", <<"b", "o", "l", "t">>>>}}

InitHistory ==
    /\ all_events \in Pools
    /\ current_event \in Requests \cup {all_events[i] : i \in DOMAIN all_events}
    /\ limit \in Limits
    /\ found = <<>>
    /\ TriageIdle /\ DedupIdle /\ SchemaIdle /\ StoreIdle

FindSimilarEvents ==
    /\ found = <<>>
    /\ found' = <<find_similar_events(current_event, all_events, limit)>>
    /\ UNCHANGED <<current_event, all_events, limit,
                   triageVars, dedupVars, schemaVars, storeVars, cacheVars>>

NextHistory == FindSimilarEvents

SpecHistory == InitHistory /\ [][NextHistory]_vars

(* Claims about find_similar_events, under SpecHistory *)

\* the pool position of the k-th returned record (record_id is unique)
Src(k) == found[1][k].event.record_id[1]
Carried(k) == found[1][k].similarity_score

\* pool record i carries an id of the target
HasTargetId(i) ==
    \/ /\ current_event.event_id # <<>>
       /\ all_events[i].event_id = current_event.event_id
    \/ /\ current_event.record_id # <<>>
       /\ all_events[i].record_id = current_event.record_id

ReachesThreshold(i) ==
    LET x == Similarity(current_event, all_events[i])
    IN  x.num * 10 >= 3 * 1000 * x.den

\* C8: no element returned by find_similar_events has the target's own
\* record_id or event_id, whether the target is a member of the pool or
\* not, and also when the target carries only one of the two ids.
C8_SelfExcluded ==
    found # <<>>
      => \A k \in DOMAIN found[1] :
            /\ current_event.event_id # <<>>
                 => found[1][k].event.event_id # current_event.event_id
            /\ current_event.record_id # <<>>
                 => found[1][k].event.record_id # current_event.record_id

\* a target with an event_id only, which a pool record scoring above the
\* threshold shares: that record is left out, another one is returned
C8_Witness ==
    /\ found # <<>>
    /\ current_event.record_id = <<>>
    /\ \E i \in DOMAIN all_events :
          /\ all_events[i].event_id = current_event.event_id
          /\ ReachesThreshold(i)
    /\ found[1] # <<>>

\* C9: find_similar_events returns only pool records whose similarity score
\* is at least 0.3, sorted by the score they carry in descending order with
\* equal scores in pool order, at most `limit` of them, and those are the
\* first `limit` of that ordering of the qualifying records.
C9_ThresholdOrderLimit ==
    found # <<>>
      => LET out == found[1]
         IN  /\ Len(out) <= limit
             /\ \A k \in DOMAIN out :
                   /\ Src(k) \in DOMAIN all_events
                   /\ out[k].event = all_events[Src(k)]
                   /\ ReachesThreshold(Src(k))
                   /\ Carried(k)
                        = Round3(Similarity(current_event, out[k].event))
                   /\ Carried(k) * 10 >= 3 * 1000
             /\ \A k, m \in DOMAIN out :
                   k < m =>
                     \/ Carried(k) > Carried(m)
                     \/ Carried(k) = Carried(m) /\ Src(k) < Src(m)
             /\ \A i \in DOMAIN all_events :
                   (/\ ReachesThreshold(i)
                    /\ ~HasTargetId(i)
                    /\ \A k \in DOMAIN out : Src(k) # i)
                     => /\ Len(out) = limit
                        /\ \A k \in DOMAIN out :
                              LET c == Round3(Similarity(current_event,
                                                         all_events[i]))
                              IN  \/ Carried(k) > c
                                  \/ Carried(k) = c /\ Src(k) < i

\* three qualifying records and limit 2: the first of the pool scores least
\* and is cut, the other two tie and come back in pool order
C9_Witness ==
    /\ found # <<>>
    /\ limit = 2
    /\ Len(all_events) = 3
    /\ ReachesThreshold(1) /\ ~HasTargetId(1)
    /\ Len(found[1]) = 2
    /\ Src(1) = 2 /\ Src(2) = 3
    /\ Carried(1) = Carried(2)
    /\ Round3(Similarity(current_event, all_events[1])) < Carried(1)
    /\ Carried(1) % 10 # 0

-----------------------------------------------------------------------------
(* SchemaService.normalize_event (src/backend/services/schema_service.py) *)

\* str(event.get(key, ""))
Str(v) == IF v = Absent THEN "" ELSE IF v = NoneStr THEN "None" ELSE v

\* event.get("data", {}): a missing data is an empty dict
DataOf(ev) ==
    IF ev.data.kind = "absent"
      THEN [kind |-> "dict", force |-> <<>>, vibration |-> <<>>,
            axis |-> <<>>]
    ELSE ev.data

\* _normalize_timestamp, on the timestamps the model uses
normalize_timestamp(timestamp) ==
    CASE timestamp \in {Absent, NoneStr} -> Now
      [] timestamp = "2025-11-17 09:59:45" -> "2025-11-17T09:59:45"
      [] OTHER -> Now

\* re.search of the joint patterns in the upper-cased description
JointPattern(description) ==
    IF description = "J3 collision 900N" THEN <<"J3">> ELSE <<>>

\* re.search(r'(\d+(?:\.\d+)?)\s*[Nn]', description.lower())
ForcePattern(description) ==
    CASE description = "J3 collision 900N" -> <<900>>
      [] description = "overload 12000 N" -> <<12000>>
      [] OTHER -> <<>>

\* a COLLISION_KEYWORDS entry found in the lower-cased description
CollisionKeyword(description) ==
    CASE description = "J3 collision 900N" -> <<"hard_impact">>
      [] description = "light contact" -> <<"soft_collision">>
      [] OTHER -> <<>>

\* `"COLLISION" in description.upper()`
SaysCollision(description) == description = "J3 collision 900N"

\* a call either raises or returns a value
Raises == [raised |-> TRUE, value |-> <<>>]
Returns(v) == [raised |-> FALSE, value |-> <<v>>]

\* `key in data`: a TypeError when data is None.  Of the data columns the
\* model has Axis, a CSV cell: int(axis_val) is an OverflowError, which the
\* handler of ValueError and TypeError lets through, when the cell is inf.
extract_joint(ev) ==
    IF JointPattern(Str(ev.description)) # <<>>
      THEN Returns(JointPattern(Str(ev.description))[1])
    ELSE IF DataOf(ev).kind = "none" THEN Raises
    ELSE IF DataOf(ev).axis = <<"inf">> THEN Raises
    ELSE IF DataOf(ev).axis = <<"3">> THEN Returns("J3")
    ELSE Returns("UNKNOWN")

ForceMax == 10000

\* the first value found, whatever its size
extract_force_value_NoRangeCheck(ev) ==
    LET data == DataOf(ev)
        inDescription == ForcePattern(Str(ev.description))
        fromVibration ==
            IF data.vibration = <<>> THEN <<>>
            ELSE IF data.vibration[1] > 0 THEN <<data.vibration[1] * 100>>
            ELSE data.vibration
    IN  IF data.kind = "none" THEN Raises
        ELSE IF data.force # <<>> THEN Returns(data.force)
        ELSE IF fromVibration # <<>> THEN Returns(fromVibration)
        ELSE Returns(inDescription)

\* the value is an Option: <<>> is None.  Of the keys force, force_value,
\* torque and vibration the model's data has the first and the last; a
\* positive vibration (in g) is multiplied by 100.
extract_force_value(ev) ==
    LET data == DataOf(ev)
        inDescription == ForcePattern(Str(ev.description))
        fromVibration ==
            IF data.vibration = <<>> THEN <<>>
            ELSE IF data.vibration[1] > 0 THEN <<data.vibration[1] * 100>>
            ELSE data.vibration
    IN  IF data.kind = "none" THEN Raises
        ELSE IF data.force # <<>> /\ 0 <= data.force[1]
                  /\ data.force[1] <= ForceMax
          THEN Returns(data.force)
        ELSE IF fromVibration # <<>> /\ 0 <= fromVibration[1]
                  /\ fromVibration[1] <= ForceMax
          THEN Returns(fromVibration)
        ELSE IF inDescription # <<>> /\ inDescription[1] <= ForceMax
          THEN Returns(inDescription)
        ELSE Returns(<<>>)

\* the severity keyword found in str(event.get("severity", "")).upper()
SeverityKeyword(severity_raw) ==
    CASE severity_raw = "CRITICAL" -> <<"critical">>
      [] severity_raw = "ALERT" -> <<"high">>
      [] severity_raw = "warning" -> <<"med">>
      [] OTHER -> <<>>

\* _calculate_severity trusting the raw severity string before the force
calculate_severity_RawSeverityFirst(ev) ==
    LET force == extract_force_value(ev)
        keyword == SeverityKeyword(Str(ev.severity))
    IN  IF force.raised THEN Raises
        ELSE IF keyword # <<>> THEN Returns(keyword[1])
        ELSE IF force.value[1] # <<>>
          THEN LET f == force.value[1][1]
               IN  Returns(IF f < 300 THEN "low"
                           ELSE IF f < 600 THEN "med"
                           ELSE IF f < 800 THEN "high" ELSE "critical")
        ELSE IF ev.error_code = NoneStr THEN Raises
        ELSE IF ev.error_code = "SRVO-324"
                  \/ SaysCollision(Str(ev.description))
          THEN Returns("med")
        ELSE Returns("low")

\* line 284: `"SRVO" in error_code` is a TypeError when error_code is None
calculate_severity(ev) ==
    LET force == extract_force_value(ev)
        keyword == SeverityKeyword(Str(ev.severity))
    IN  IF force.raised THEN Raises
        ELSE IF force.value[1] # <<>>
          THEN LET f == force.value[1][1]
               IN  Returns(IF f < 300 THEN "low"
                           ELSE IF f < 600 THEN "med"
                           ELSE IF f < 800 THEN "high" ELSE "critical")
        ELSE IF keyword # <<>> THEN Returns(keyword[1])
        ELSE IF ev.error_code = NoneStr THEN Raises
        ELSE IF ev.error_code = "SRVO-324"
                  \/ SaysCollision(Str(ev.description))
          THEN Returns("med")
        ELSE Returns("low")

detect_collision_type(ev) ==
    IF CollisionKeyword(Str(ev.description)) # <<>>
      THEN CollisionKeyword(Str(ev.description))[1]
    ELSE IF ev.error_code = "SRVO-324" THEN "hard_impact"
    ELSE NoneStr

\* called after the joint and the force value were extracted without raising
determine_confidence(ev) ==
    LET has_timestamp == ev.timestamp \notin {Absent, NoneStr}
        has_joint == extract_joint(ev).value[1] # "UNKNOWN"
        has_force == extract_force_value(ev).value[1] # <<>>
        has_error_code == ev.error_code \notin {Absent, NoneStr}
        score == (IF has_timestamp THEN 1 ELSE 0) + (IF has_joint THEN 1 ELSE 0)
                 + (IF has_force THEN 1 ELSE 0)
                 + (IF has_error_code THEN 1 ELSE 0)
    IN  IF score >= 3 THEN "high"
        ELSE IF score >= 2 THEN "medium" ELSE "inferred"

normalize_status(status) ==
    IF ~Truthy(status) THEN "pending_inspection"
    ELSE IF status = "Under Repair" THEN "under_repair"
    ELSE IF status \in {"pending_inspection", "under_repair", "resolved"}
      THEN status
    ELSE "pending_inspection"

TimestampNote == "Timestamp inferred from sequence"
JointNote == "Joint identifier not found, may need manual review"
ForceNote ==
    "Force value not available, severity calculated from other indicators"

\* the notes, in their order; `not force` also holds for a force of 0
generate_notes(ev) ==
    LET force == extract_force_value(ev).value[1]
    IN  (IF ~Truthy(ev.timestamp) THEN <<TimestampNote>> ELSE <<>>)
        \o (IF extract_joint(ev).value[1] = "UNKNOWN" THEN <<JointNote>>
            ELSE <<>>)
        \o (IF force = <<>> \/ force = <<0>> THEN <<ForceNote>> ELSE <<>>)

\* the dict literal of lines 55-74: the first call that raises ends it
normalize_event(raw) ==
    IF \/ extract_joint(raw).raised
       \/ extract_force_value(raw).raised
       \/ calculate_severity(raw).raised
      THEN [raised |-> TRUE, record |-> <<>>]
    ELSE [raised |-> FALSE,
          record |-> <<[record_id |-> <<1>>,
                        timestamp |-> normalize_timestamp(raw.timestamp),
                        joint |-> extract_joint(raw).value[1],
                        collision_type |-> detect_collision_type(raw),
                        force_value |-> extract_force_value(raw).value[1],
                        severity |-> calculate_severity(raw).value[1],
                        status |-> normalize_status(raw.status),
                        recommended_action |-> "",
                        confidence_flag |-> determine_confidence(raw),
                        recurrence_count |-> 0,
                        notes |-> generate_notes(raw),
                        event_type |-> Get(raw.event_type, "unknown"),
                        event_id |-> raw.event_id,
                        description |-> Get(raw.description, "No description"),
                        error_code |-> Get(raw.error_code, NoneStr),
                        original_event |-> raw]>>]

\* raw mappings: every field missing, null or with a value, well-formed or not
RawForces ==
    {<<>>, <<-1>>, <<0>>, <<299>>, <<300>>, <<599>>, <<600>>, <<799>>,
     <<800>>, <<10000>>, <<10001>>}
RawVibrations == {<<>>, <<50>>, <<150>>}
RawAxes == {<<"3">>, <<"9">>, <<"inf">>}
RawData ==
    {[kind |-> k, force |-> <<>>, vibration |-> <<>>, axis |-> <<>>] :
        k \in {"absent", "none"}}
      \cup [kind : {"dict"}, force : RawForces, vibration : RawVibrations,
            axis : {<<>>}]
      \cup [kind : {"dict"}, force : {<<>>}, vibration : {<<>>},
            axis : RawAxes]
RawEvents ==
    [timestamp : {Absent, NoneStr, "2025-11-17 09:59:45", "yesterday"},
     description : {Absent, NoneStr, "J3 collision 900N", "torque limit",
                    "overload 12000 N", "light contact"},
     error_code : {Absent, NoneStr, "SRVO-324"},
     severity : {Absent, NoneStr, "ALERT", "unclassified"},
     status : {Absent, NoneStr, "Under Repair", "on hold"},
     data : RawData,
     event_type : {"error_log"},
     event_id : {<<1>>}]

InitNormalize ==
    /\ raw_event \in RawEvents
    /\ normalized = <<>>
    /\ candidate = <<>> /\ validation = <<>>
    /\ TriageIdle /\ DedupIdle /\ HistoryIdle /\ StoreIdle

NormalizeEvent ==
    /\ normalized = <<>>
    /\ normalized' = <<normalize_event(raw_event)>>
    /\ UNCHANGED <<raw_event, candidate, validation>>
    /\ UNCHANGED <<triageVars, dedupVars, historyVars, storeVars, cacheVars>>

NextNormalize == NormalizeEvent

SpecNormalize == InitNormalize /\ [][NextNormalize]_vars

(* Claims about normalize_event, under SpecNormalize *)

\* C10: normalize_event never raises and always returns a Record, for every
\* raw mapping whose timestamp, description, error_code, severity, status
\* and data are each missing, null or present with a value.
C10_NormalizeNeverRaises ==
    normalized # <<>>
      => ~normalized[1].raised /\ normalized[1].record # <<>>

\* what the code does instead: it raises exactly when data is null, when
\* the Axis cell of the data is inf and the description names no joint, or
\* when error_code is null and neither a force value nor a severity keyword
\* settles the severity first
C10_RaisesExactlyWhen ==
    normalized # <<>>
      => (normalized[1].raised
            <=> \/ raw_event.data.kind = "none"
                \/ /\ raw_event.data.axis = <<"inf">>
                   /\ raw_event.description # "J3 collision 900N"
                \/ /\ raw_event.error_code = NoneStr
                   /\ raw_event.data.force = <<>>
                        \/ raw_event.data.force[1] \notin 0..10000
                   /\ raw_event.data.vibration # <<50>>
                   /\ raw_event.description # "J3 collision 900N"
                   /\ raw_event.severity # "ALERT")

\* a raw mapping that is a lone null error_code: normalize_event raises
C10_Witness ==
    /\ normalized # <<>>
    /\ raw_event = [timestamp |-> Absent, description |-> Absent,
                    error_code |-> NoneStr, severity |-> Absent,
                    status |-> Absent,
                    data |-> [kind |-> "absent", force |-> <<>>,
                              vibration |-> <<>>, axis |-> <<>>],
                    event_type |-> "error_log", event_id |-> <<1>>]
    /\ normalized[1].raised

\* the record normalize_event returned, when it returned one
Normalized == normalized[1].record[1]
ReturnedRecord == normalized # <<>> /\ ~normalized[1].raised

SeverityRank(severity) ==
    CASE severity = "low" -> 1
      [] severity = "med" -> 2
      [] severity = "high" -> 3
      [] severity = "critical" -> 4

\* the design's step function
StepSeverity(f) ==
    IF f < 300 THEN "low"
    ELSE IF f < 600 THEN "med"
    ELSE IF f < 800 THEN "high" ELSE "critical"

\* the raw observation with g as the force of its data, all else equal
WithForce(g) ==
    [raw_event EXCEPT !.data = [kind |-> "dict", force |-> g,
                                vibration |-> raw_event.data.vibration,
                                axis |-> raw_event.data.axis]]

-----------------------------------------------------------------------------
(* events_store and its handlers (src/backend/main.py) *)

\* the timestamps datetime.fromisoformat parses
IsoTimestamps == {Now, "2025-11-17T09:59:45", "2025-11-18T00:00:00"}

\* SchemaService.validate_schema on a record whose missing keys read Absent
\* (<<>> for record_id), its errors as pairs of a kind and a field:
\* normalized_event["timestamp"] is a KeyError when the key is missing, and
\* None.replace an AttributeError, which is caught
validate_schema(rec) ==
    LET errors ==
          (IF rec.record_id = <<>> THEN {<<"missing", "record_id">>}
           ELSE {})
          \cup {<<"missing", f>> :
                  f \in {g \in {"timestamp", "joint", "severity", "status"} :
                            ~Truthy(rec[g])}}
          \cup (IF rec.timestamp \notin IsoTimestamps
                  THEN {<<"invalid", "timestamp">>} ELSE {})
          \cup (IF rec.severity \notin {"low", "med", "high", "critical"}
                  THEN {<<"invalid", "severity">>} ELSE {})
          \cup (IF rec.status
                     \notin {"pending_inspection", "under_repair", "resolved"}
                  THEN {<<"invalid", "status">>} ELSE {})
          \cup (IF rec.force_value # <<>>
                     /\ (rec.force_value[1] < 0
                           \/ rec.force_value[1] > ForceMax)
                  THEN {<<"out of range", "force_value">>} ELSE {})
    IN  IF rec.timestamp = Absent
          THEN [raised |-> TRUE, is_valid |-> FALSE, errors |-> {}]
        ELSE [raised |-> FALSE, is_valid |-> errors = {},
              errors |-> errors]

\* ETLService.process_file: the raw observations of a file, each with the
\* event_id the extractor gives it (its row index and the second of reading,
\* `stamp`); reading raises for a file that cannot be parsed
process_file(file, stamp) ==
    IF ~file.readable THEN [raised |-> TRUE, events |-> <<>>]
    ELSE [raised |-> FALSE,
          events |-> [i \in DOMAIN file.rows |->
                        [file.rows[i]
                           EXCEPT !.event_id = <<10 * stamp + i>>]]]

\* the loop of lines 104-111 and 358-364 from record_id `id` on: the records
\* that passed validation, every record normalize_event returned, and
\* whether a call raised and ended the loop
RECURSIVE NormalizeRows(_, _)
NormalizeRows(rows, id) ==
    IF rows = <<>>
      THEN [raised |-> FALSE, valid |-> <<>>, produced |-> <<>>]
    ELSE With(normalize_event(Head(rows)), LAMBDA n :
           IF n.raised
             THEN [raised |-> TRUE, valid |-> <<>>, produced |-> <<>>]
           ELSE With([n.record[1] EXCEPT !.record_id = <<id>>], LAMBDA rec :
                With(validate_schema(rec), LAMBDA v :
                With(NormalizeRows(Tail(rows), id + 1), LAMBDA rest :
                  IF v.raised
                    THEN [raised |-> TRUE, valid |-> <<>>,
                          produced |-> <<rec>>]
                  ELSE [raised |-> rest.raised,
                        valid |-> (IF v.is_valid THEN <<rec>> ELSE <<>>)
                                    \o rest.valid,
                        produced |-> <<rec>> \o rest.produced]))))

\* process_upload: the whole body is one try block, an exception is HTTP 500
process_upload(store, file, id, stamp) ==
    With(process_file(file, stamp), LAMBDA etl :
    With(NormalizeRows(etl.events, id), LAMBDA n :
      IF etl.raised \/ n.raised
        THEN [status |-> "error", store |-> store, produced |-> n.produced]
      ELSE [status |-> "success",
            store |-> store \o deduplicate_events(n.valid),
            produced |-> n.produced]))

\* the fast mode of batch_process_all (lines 396-484): score and priority
\* from the severity, for a low severity from the other indicators
heuristic_score(ev) ==
    LET byCode ==
          IF HasSRVO(ev.error_code)
            THEN (IF ev.error_code = "SRVO-324"
                    THEN [score |-> 70, priority |-> "HIGH"]
                  ELSE [score |-> 55, priority |-> "MEDIUM"])
          ELSE IF HasTEMP(ev.error_code)
            THEN [score |-> 50, priority |-> "MEDIUM"]
          ELSE [score |-> 30, priority |-> "LOW"]
        \* a normalized record has no raw_data, so a system_alert changes
        \* nothing
        byType ==
          IF ev.event_type = "error_log"
            THEN [score |-> Max(byCode.score, 50), priority |-> "MEDIUM"]
          ELSE byCode
        byCollision ==
          CASE ev.collision_type = "hard_impact"
                 -> [score |-> 80, priority |-> "HIGH"]
            [] ev.collision_type = "emergency_stop"
                 -> [score |-> 75, priority |-> "HIGH"]
            [] ev.collision_type = "soft_collision"
                 -> [score |-> 60, priority |-> "MEDIUM"]
            [] OTHER -> byType
        byForce ==
          IF ev.force_value = <<>> THEN byCollision
          ELSE IF ev.force_value[1] > 800
            THEN [score |-> 85, priority |-> "CRITICAL"]
          ELSE IF ev.force_value[1] > 600
            THEN [score |-> 70, priority |-> "HIGH"]
          ELSE IF ev.force_value[1] > 300
            THEN [score |-> 55, priority |-> "MEDIUM"]
          ELSE byCollision
        recurrence == ev.recurrence_count
        byRecurrence ==
          IF recurrence > 10
            THEN [score |-> Min(byForce.score + 20, 100),
                  priority |-> IF byForce.priority = "LOW" THEN "MEDIUM"
                               ELSE byForce.priority]
          ELSE IF recurrence > 5
            THEN [byForce EXCEPT !.score = Min(byForce.score + 15, 100)]
          ELSE IF recurrence > 1
            THEN [byForce EXCEPT !.score = Min(byForce.score + 10, 100)]
          ELSE byForce
        scored ==
          CASE ev.severity = "critical" -> [score |-> 90, priority |-> "CRITICAL"]
            [] ev.severity = "high" -> [score |-> 75, priority |-> "HIGH"]
            [] ev.severity = "med" -> [score |-> 50, priority |-> "MEDIUM"]
            [] OTHER -> byRecurrence
    IN  [score |-> Min(Max(scored.score, 0), 100), priority |-> scored.priority]

FastAction ==
    "Review event details and follow standard maintenance procedures. Use 'Score Triage' for AI-powered recommendations."

\* event["triage_score"] = ...; event["priority"] = ...;
\* event["recommended_action"] = ...: keys a record of an upload does not have
WithTriage(ev, score, priority, action) ==
    [triage_score |-> score, priority |-> priority]
      @@ [ev EXCEPT !.recommended_action = action]

\* the words of the descriptions of the stored records
Words(description) ==
    CASE description = "J3 collision 900N" -> <<"J3", "collision", "900N">>
      [] description = "torque limit" -> <<"torque", "limit">>
      [] description = "overload 12000 N" -> <<"overload", "12000", "N">>
      [] OTHER -> <<>>

\* a stored record as find_similar_events reads it
HistoryView(rec) ==
    [record_id |-> rec.record_id, event_id |-> rec.event_id,
     event_type |-> rec.event_type, description |-> Chars(rec.description),
     error_code |-> rec.error_code, severity |-> rec.severity,
     original_event |->
       <<[event_id |-> rec.original_event.event_id,
          event_type |-> rec.original_event.event_type,
          description |-> Chars(Str(rec.original_event.description)),
          error_code |-> rec.original_event.error_code]>>]

\* a stored record as score_event and analyze_event read it
TriageView(rec) ==
    [event_id |-> rec.event_id, joint |-> rec.joint,
     severity |-> rec.severity, force_value |-> rec.force_value,
     recurrence_count |-> <<rec.recurrence_count>>,
     error_code |-> rec.error_code, description |-> Words(rec.description)]

\* lines 501-514: the similar records of the batch, then score_event on an
\* AzureAIService that has no client (no endpoint configured)
ai_triage(ev, evs) ==
    With(find_similar_events(HistoryView(ev),
                             [i \in DOMAIN evs |-> HistoryView(evs[i])],
                             DefaultLimit), LAMBDA similar_found :
    With([i \in DOMAIN similar_found |->
            [similarity_score |-> similar_found[i].similarity_score,
             severity |-> similar_found[i].event.severity]], LAMBDA similar :
    With(analyze_event(FALSE, <<>>, TriageView(ev), similar, "triage",
                       NotCalled), LAMBDA a :
    With(score_event(TriageView(ev), similar, a.result, FALSE), LAMBDA t :
      [maintenance_report |-> t.maintenance_report]
        @@ WithTriage(ev, t.score, t.priority, t.recommendation)))))

\* lines 526-539: the records the AI mode leaves out
basic_triage(ev) ==
    LET t == CASE ev.severity = "critical" -> <<90, "CRITICAL">>
               [] ev.severity = "high" -> <<75, "HIGH">>
               [] ev.severity = "med" -> <<50, "MEDIUM">>
               [] OTHER -> <<30, "LOW">>
    IN  WithTriage(ev, t[1], t[2],
          "Review event details and follow standard maintenance procedures")

\* lines 393-539: the annotations, written into the records of the store
annotate(evs, skip_ai) ==
    LET idx == [i \in DOMAIN evs |-> i]
        IsHigh(i) == evs[i].severity \in {"critical", "high"}
        high_priority_events == SelectSeq(idx, IsHigh)
        other_events == SelectSeq(idx, LAMBDA i : ~IsHigh(i))
        events_to_process ==
          Take(Take(high_priority_events, 10) \o Take(other_events, 5), 15)
    IN  [i \in DOMAIN evs |->
           IF skip_ai
             THEN With(heuristic_score(evs[i]), LAMBDA h :
                    WithTriage(evs[i], h.score, h.priority, FastAction))
           ELSE IF \E k \in DOMAIN events_to_process : events_to_process[k] = i
             THEN ai_triage(evs[i], evs)
           ELSE basic_triage(evs[i])]

\* lines 349-381 from record_id `id` on, the k-th file read in the second
\* stamps[k]: a file whose reading or whose normalization raises contributes
\* nothing
RECURSIVE ProcessFiles(_, _, _)
ProcessFiles(files, id, stamps) ==
    IF files = <<>> THEN [valid |-> <<>>, produced |-> <<>>, status |-> <<>>]
    ELSE With(process_file(Head(files), Head(stamps)), LAMBDA etl :
         With(NormalizeRows(etl.events, id), LAMBDA n :
         With(ProcessFiles(Tail(files), id + Len(Head(files).rows),
                           Tail(stamps)), LAMBDA rest :
           [valid |-> (IF etl.raised \/ n.raised THEN <<>> ELSE n.valid)
                        \o rest.valid,
            produced |-> n.produced \o rest.produced,
            status |-> <<IF etl.raised \/ n.raised THEN "error"
                         ELSE "success">> \o rest.status])))

\* a batch run that extends the store instead of replacing it
batch_process_all_KeepsStore(store, files, skip_ai, id, stamps) ==
    IF files = <<>>
      THEN [status |-> "error", store |-> store, produced |-> <<>>,
            files |-> <<>>]
    ELSE With(ProcessFiles(files, id, stamps), LAMBDA p :
           [status |-> "success",
            store |-> store \o annotate(deduplicate_events(p.valid), skip_ai),
            produced |-> p.produced, files |-> p.status])

\* batch_process_all over the files of the data directory, sorted by name
batch_process_all(store, files, skip_ai, id, stamps) ==
    IF files = <<>>
      THEN [status |-> "error", store |-> store, produced |-> <<>>,
            files |-> <<>>]
    ELSE With(ProcessFiles(files, id, stamps), LAMBDA p :
           [status |-> "success",
            store |-> annotate(deduplicate_events(p.valid), skip_ai),
            produced |-> p.produced, files |-> p.status])

-----------------------------------------------------------------------------
(* The store: the inputs *)

MaxRows == 2
MaxFiles == 2
MaxIds == 2

\* raw observations as the extractors of ETLService give them (a dict as
\* data, a string as description); event_id is set by process_file
Observation(description, error_code, severity, timestamp, f, v, axis) ==
    [timestamp |-> timestamp, description |-> description,
     error_code |-> error_code, severity |-> severity, status |-> Absent,
     data |-> [kind |-> "dict", force |-> f, vibration |-> v, axis |-> axis],
     event_type |-> "error_log", event_id |-> <<1>>]

Observations ==
    {Observation("J3 collision 900N", "SRVO-324", Absent,
                 "2025-11-17 09:59:45", <<>>, <<>>, <<>>),
     Observation("torque limit", Absent, "ALERT", "2025-11-17 09:59:45",
                 <<600>>, <<>>, <<>>),
     Observation("overload 12000 N", Absent, Absent, "yesterday",
                 <<10001>>, <<150>>, <<>>),
     Observation("torque limit", Absent, Absent, "2025-11-17 09:59:45",
                 <<>>, <<>>, <<"inf">>)}

\* a file: whether the extractor can read it, and its observations
Files ==
    [readable : {TRUE}, rows : SeqsUpTo(Observations, MaxRows)]
      \cup {[readable |-> FALSE, rows |-> <<>>]}

\* the seconds the files of a run are read in: the clock does not go back
Stamps(n) ==
    {st \in [1..n -> {1, 2}] : \A k \in 1..(n - 1) : st[k] <= st[k + 1]}

\* the data directory at the time of a batch run
Directories == SeqsUpTo(Files, MaxFiles)

RowsOf(files) == SumSeq([i \in DOMAIN files |-> Len(files[i].rows)])

\* record_id is a fresh uuid4, in the model the next of MaxIds numbers: the
\* files and the directories that the remaining numbers suffice for
FilesWithin == [n \in 0..MaxIds |-> {f \in Files : Len(f.rows) <= n}]
DirectoriesWithin ==
    [n \in 0..MaxIds |-> {d \in Directories : RowsOf(d) <= n}]

InitStore ==
    /\ events_store = <<>>
    /\ next_id = 1
    /\ last_call = NoCall
    /\ service = "azure" /\ client = FALSE /\ response_cache = <<>>
    /\ event = <<>> /\ similar_events = <<>> /\ oracle = NotCalled
    /\ ai_result = <<>> /\ triage_result = <<>> /\ raised = FALSE
    /\ calls = <<>>
    /\ DedupIdle /\ HistoryIdle /\ SchemaIdle
    /\ inserted = <<>>

\* POST /api/etl/process
ProcessUpload ==
    \E file \in FilesWithin[MaxIds + 1 - next_id], stamps \in Stamps(1) :
        /\ \E r \in {process_upload(events_store, file, next_id, stamps[1])} :
               /\ events_store' = r.store
               /\ last_call' = [op |-> "process_upload", status |-> r.status,
                                files |-> <<r.status>>, skip_ai |-> FALSE,
                                produced |-> r.produced,
                                before |-> Len(events_store)]
        /\ next_id' = next_id + Len(file.rows)
        /\ UNCHANGED <<triageVars, dedupVars, historyVars, schemaVars,
                        cacheVars>>

\* POST /api/batch/process-all
BatchProcessAll ==
    \E files \in DirectoriesWithin[MaxIds + 1 - next_id],
       skip_ai \in BOOLEAN :
      \E stamps \in Stamps(Len(files)) :
        /\ \E r \in {batch_process_all(events_store, files, skip_ai, next_id,
                                       stamps)} :
               /\ events_store' = r.store
               /\ last_call' = [op |-> "batch_process_all",
                                status |-> r.status, files |-> r.files,
                                skip_ai |-> skip_ai, produced |-> r.produced,
                                before |-> Len(events_store)]
        /\ next_id' = next_id + RowsOf(files)
        /\ UNCHANGED <<triageVars, dedupVars, historyVars, schemaVars,
                        cacheVars>>

\* what a handler that only reads events_store leaves behind
Answered(op, status) ==
    [NoCall EXCEPT !.op = op, !.status = status,
                   !.before = Len(events_store)]

\* GET /api/events: filters a copy of the list
GetEvents ==
    /\ last_call' = Answered("get_events", "success")
    /\ UNCHANGED <<events_store, next_id>>
    /\ UNCHANGED <<triageVars, dedupVars, historyVars, schemaVars,
                        cacheVars>>

\* GET /api/events/{event_id}: the record, or 404
GetEvent ==
    /\ \E id \in {11, 12, 21} :
         last_call' =
           Answered("get_event",
                    IF \E i \in DOMAIN events_store :
                          events_store[i].event_id = <<id>>
                      THEN "success" ELSE "error")
    /\ UNCHANGED <<events_store, next_id>>
    /\ UNCHANGED <<triageVars, dedupVars, historyVars, schemaVars,
                        cacheVars>>

\* POST /api/history/lookup: find_similar_events returns copies
LookupHistory ==
    /\ last_call' = Answered("lookup_history", "success")
    /\ UNCHANGED <<events_store, next_id>>
    /\ UNCHANGED <<triageVars, dedupVars, historyVars, schemaVars,
                        cacheVars>>

\* POST /api/triage/score: the stored record is read, the result is returned
ScoreTriage ==
    /\ last_call' = Answered("score_triage", "success")
    /\ UNCHANGED <<events_store, next_id>>
    /\ UNCHANGED <<triageVars, dedupVars, historyVars, schemaVars,
                        cacheVars>>

\* GET /api/stats: counts over the store
GetStats ==
    /\ last_call' = Answered("get_stats", "success")
    /\ UNCHANGED <<events_store, next_id>>
    /\ UNCHANGED <<triageVars, dedupVars, historyVars, schemaVars,
                        cacheVars>>

\* GET /api/validation: metrics over the store
GetValidation ==
    /\ last_call' = Answered("get_validation", "success")
    /\ UNCHANGED <<events_store, next_id>>
    /\ UNCHANGED <<triageVars, dedupVars, historyVars, schemaVars,
                        cacheVars>>

NextStore ==
    \/ ProcessUpload
    \/ BatchProcessAll
    \/ GetEvents
    \/ GetEvent
    \/ LookupHistory
    \/ ScoreTriage
    \/ GetStats
    \/ GetValidation

SpecStore == InitStore /\ [][NextStore]_vars

-----------------------------------------------------------------------------
(* Claims about events_store, under SpecStore *)

InRange(force_value) ==
    force_value = <<>> \/ (0 <= force_value[1] /\ force_value[1] <= ForceMax)

\* C11: every record normalize_event returned to the last handler, and every
\* record of events_store after any sequence of uploads and batch runs, has
\* a force_value that is None or within [0, 10000]; a raw value outside the
\* range is never the record's force_value.
C11_ForceInRange ==
    /\ \A i \in DOMAIN events_store : InRange(events_store[i].force_value)
    /\ \A i \in DOMAIN last_call.produced :
          InRange(last_call.produced[i].force_value)

\* a stored record whose raw force (10001), vibration (150 g) and description
\* (12000 N) are all out of range, next to one whose force was kept
C11_Witness ==
    /\ \E i \in DOMAIN events_store :
          /\ events_store[i].original_event.data.force = <<10001>>
          /\ events_store[i].original_event.data.vibration = <<150>>
          /\ events_store[i].description = "overload 12000 N"
          /\ events_store[i].force_value = <<>>
    /\ \E i \in DOMAIN events_store : events_store[i].force_value = <<600>>

\* the record with this record_id is in events_store
Stored(rec) ==
    \E j \in DOMAIN events_store : events_store[j].record_id = rec.record_id

\* C13: in process_upload and in batch_process_all an observation whose
\* normalization or validation fails is excluded alone: every other
\* observation of the file and of the batch is normalized and stored, so
\* every valid record that normalize_event returned to the handler is in
\* events_store when the handler has answered.
C13_BadObservationExcludedAlone ==
    last_call.op \in {"process_upload", "batch_process_all"}
      => \A i \in DOMAIN last_call.produced :
            validate_schema(last_call.produced[i]).is_valid
              => Stored(last_call.produced[i])

\* an upload whose second observation made normalize_event raise: the first
\* observation's record was valid, the request failed and nothing was stored
C13_Witness ==
    /\ last_call.op = "process_upload"
    /\ last_call.status = "error"
    /\ Len(last_call.produced) = 1
    /\ validate_schema(last_call.produced[1]).is_valid
    /\ events_store = <<>>

ReadOps ==
    {"get_events", "get_event", "lookup_history", "score_triage",
     "get_stats", "get_validation"}

\* the step appended to the store: the old records are there, in their order
Appended ==
    /\ Len(events_store') >= Len(events_store)
    /\ SubSeq(events_store', 1, Len(events_store)) = events_store

\* after the step the store holds records of the run that just ended only:
\* each has a record_id that did not exist before the run, and is one of the
\* records normalize_event returned to the run; and when no file failed,
\* every such record that is valid is there
RebuiltByRun ==
    /\ \A j \in DOMAIN events_store' :
          /\ events_store'[j].record_id[1] >= next_id
          /\ \E i \in DOMAIN last_call'.produced :
                last_call'.produced[i].record_id = events_store'[j].record_id
    /\ (\A k \in DOMAIN last_call'.files : last_call'.files[k] = "success")
          => \A i \in DOMAIN last_call'.produced :
                validate_schema(last_call'.produced[i]).is_valid
                  => \E j \in DOMAIN events_store' :
                        events_store'[j].record_id
                          = last_call'.produced[i].record_id

\* C14 as stated: over any sequence of operations process_upload only
\* appends, the reading handlers leave the store as it is, and
\* batch_process_all leaves exactly the records built by that run and none
\* from earlier uploads or runs.
C14_AppendReadRebuild ==
    [][/\ last_call'.op = "process_upload" => Appended
       /\ last_call'.op \in ReadOps => events_store' = events_store
       /\ last_call'.op = "batch_process_all" => RebuiltByRun]_vars

\* C14, amended: the same, for a batch_process_all that found at least one
\* data file; a run that found none answers an error and leaves the store
\* as it is.
C14_RebuildWhenFilesFound ==
    [][/\ last_call'.op = "process_upload" => Appended
       /\ last_call'.op \in ReadOps => events_store' = events_store
       /\ last_call'.op = "batch_process_all"
            => IF last_call'.files # <<>> THEN RebuiltByRun
               ELSE events_store' = events_store]_vars

\* a batch run over a file replaced a store that held a record: the store
\* holds one record, and its record_id is the run's
C14_Witness ==
    /\ last_call.op = "batch_process_all"
    /\ last_call.files = <<"success">>
    /\ last_call.before = 1
    /\ Len(events_store) = 1
    /\ events_store[1].record_id = <<2>>
    /\ last_call.produced[1].record_id = <<2>>

-----------------------------------------------------------------------------
(* response_cache over a sequence of analyze_event calls *)

MaxInserts == 1002
WarmCalls == 998

\* the n-th record handed to analyze_event, as its first caller knows it
NewRecord(n) ==
    [event_id |-> ToString(n), joint |-> "J3", severity |-> "critical",
     force_value |-> <<>>, recurrence_count |-> <<1>>,
     error_code |-> "SRVO-324", description |-> <<"torque", "limit">>]

\* the record of a fingerprint, as a later caller knows it: the recurrence
\* count has grown and a force value is known
LaterRecord(key) ==
    [event_id |-> key[1], description |-> key[2], severity |-> key[3],
     error_code |-> key[4], joint |-> key[5],
     force_value |-> <<900>>, recurrence_count |-> <<150>>]

\* a deterministic oracle: the text it answers to the prompt of a record
OracleAnswer(ev) ==
    [kind |-> "text", risk |-> <<10>>, priority |-> "LOW", sections |-> TRUE]

\* the cache after analyze_event was called on the first n records
Warm(n) ==
    [i \in 1..n |->
        [key |-> generate_cache_key(NewRecord(i)),
         value |-> TryOracle(NewRecord(i), OracleAnswer(NewRecord(i))).result]]

\* a service that was just constructed, or one that has answered WarmCalls
\* calls
InitCache ==
    /\ service = "azure" /\ client = TRUE
    /\ \E n \in {0, WarmCalls} :
         /\ response_cache = Warm(n)
         /\ inserted = [i \in 1..n |-> generate_cache_key(NewRecord(i))]
    /\ event = NewRecord(1) /\ similar_events = <<>> /\ oracle = NotCalled
    /\ ai_result = <<>> /\ triage_result = <<>> /\ raised = FALSE
    /\ calls = <<>>
    /\ DedupIdle /\ HistoryIdle /\ SchemaIdle
    /\ events_store = <<>> /\ next_id = 1 /\ last_call = NoCall

\* analyze_event(ev, [], "triage") with the oracle answering
Analyze(ev) ==
    /\ \E a \in {analyze_event(client, response_cache, ev, <<>>, "triage",
                               OracleAnswer(ev))} :
         /\ response_cache' = a.cache
         /\ ai_result' = <<a.result>>
         /\ raised' = a.raised
    /\ inserted' =
         IF CacheHas(response_cache, generate_cache_key(ev)) THEN inserted
         ELSE Append(inserted, generate_cache_key(ev))
    /\ event' = ev
    /\ oracle' = IF CacheHas(response_cache, generate_cache_key(ev))
                   THEN NotCalled ELSE OracleAnswer(ev)
    /\ UNCHANGED <<service, client, similar_events, triage_result, calls>>
    /\ UNCHANGED <<dedupVars, historyVars, schemaVars, storeVars>>

\* a record that was never analyzed
AnalyzeNew ==
    /\ Len(inserted) < MaxInserts
    /\ Analyze(NewRecord(Len(inserted) + 1))

\* the record of the oldest entry of the cache, again
AnalyzeCached ==
    /\ response_cache # <<>>
    /\ Analyze(LaterRecord(response_cache[1].key))

\* the record whose entry was dropped last, again
AnalyzeEvicted ==
    /\ Len(inserted) < MaxInserts
    /\ Len(inserted) > CacheMax
    /\ Analyze(LaterRecord(inserted[Len(inserted) - CacheMax]))

NextCache == AnalyzeNew \/ AnalyzeCached \/ AnalyzeEvicted

SpecCache == InitCache /\ [][NextCache]_vars

(* Claims about response_cache, under SpecCache *)

\* the last n elements of a sequence
Last(s, n) == SubSeq(s, Len(s) - n + 1, Len(s))

\* C15: after any sequence of analyze_event calls response_cache holds at
\* most 1000 entries, and they are the fingerprints stored last, in the
\* order of storing: storing into a full cache evicts exactly one entry, the
\* one stored earliest of those still cached.
C15_CacheBounded ==
    /\ Len(response_cache) <= CacheMax
    /\ [i \in DOMAIN response_cache |-> response_cache[i].key]
         = Last(inserted, Min(Len(inserted), CacheMax))

\* the 1001st fingerprint was stored: the cache holds 1000 entries, the
\* first fingerprint stored is gone and the second is now the oldest
C15_Witness ==
    /\ Len(inserted) = CacheMax + 1
    /\ Len(response_cache) = CacheMax
    /\ ~CacheHas(response_cache, inserted[1])
    /\ response_cache[1].key = inserted[2]
    /\ response_cache[CacheMax].key = inserted[CacheMax + 1]

\* the last analyze_event call was answered from the cache
CacheHit == ai_result # <<>> /\ ai_result[1].cached = "True"

\* what the oracle call and the parsing give for the queried record
FreshResult == TryOracle(event, OracleAnswer(event)).result

\* C16: with a deterministic oracle a cache hit returns the priority, the
\* risk_score, the recommendation and the maintenance report that a fresh
\* oracle call for the queried record would return, also when the queried
\* record differs from the one that populated the entry in a field outside
\* the fingerprint.
C16_HitEqualsFresh ==
    CacheHit =>
      /\ ai_result[1].priority = FreshResult.priority
      /\ ai_result[1].risk_score = FreshResult.risk_score
      /\ ai_result[1].recommendation = FreshResult.recommendation
      /\ ai_result[1].maintenance_report = FreshResult.maintenance_report

\* a hit for a critical record whose recurrence_count has grown from 1 to
\* 150 since its entry was stored: the entry says 90, a fresh call 115
C16_Witness ==
    /\ CacheHit
    /\ event.recurrence_count = <<150>>
    /\ generate_cache_key(event) = generate_cache_key(NewRecord(1))
    /\ ai_result[1].risk_score = <<90>>
    /\ FreshResult.risk_score = <<115>>


(***************************************************************************)
(* More claims about analyze_event, _parse_ai_response and score_event,    *)
(* under SpecTriage                                                        *)
(***************************************************************************)

\* analyze_event on the real service has returned a result
Analyzed == service = "azure" /\ ai_result # <<>>

\* the result comes from _parse_ai_response: the oracle answered a text
Parsed == Analyzed /\ oracle.kind = "text"

\* C17: every result returned by AzureAIService.analyze_event (parsed from an
\* oracle text with or without a RISK_SCORE sentinel, or produced by the
\* local heuristic) has a risk_score within 0..100, for every severity,
\* force_value and recurrence_count of the record.
C17_RiskScoreInRange ==
    Analyzed =>
        /\ ai_result[1].risk_score # <<>>
        /\ ai_result[1].risk_score[1] \in 0..100

\* an oracle text without RISK_SCORE sentinel for a critical record seen 150
\* times: the result carries 90 + 25
C17_Witness ==
    /\ Parsed
    /\ oracle.risk = <<>>
    /\ event.severity = "critical"
    /\ event.recurrence_count = <<150>>
    /\ ai_result[1].risk_score = <<115>>

\* The heuristic of _parse_ai_response, as a table: the level of a record is
\* the higher of the level of its severity and the level of its force, and
\* each recurrence threshold passed adds 5.
SeverityLevel(ev) ==
    LET severity == Lower(Get(ev.severity, ""))
    IN  CASE severity = "critical" -> 4
          [] severity = "high" -> 3
          [] severity = "med" -> 2
          [] OTHER -> 1

ForceLevel(ev) ==
    LET force_value == IF ev.force_value = <<>> THEN 0 ELSE ev.force_value[1]
    IN  Cardinality({t \in {300, 600, 800} : force_value > t}) + 1

HeuristicLevel(ev) == Max(SeverityLevel(ev), ForceLevel(ev))

HeuristicRisk(ev) ==
    LET recurrence == IF ev.recurrence_count = <<>> THEN 0
                      ELSE ev.recurrence_count[1]
    IN  <<30, 50, 75, 90>>[HeuristicLevel(ev)]
          + 5 * Cardinality({t \in {1, 5, 10, 50, 100} : recurrence > t})

HeuristicPriority(ev) ==
    <<"LOW", "MEDIUM", "HIGH", "CRITICAL">>[HeuristicLevel(ev)]

\* one of the two sentinel lines of the oracle text is missing or malformed
SentinelMissing ==
    Parsed /\ (oracle.risk = <<>> \/ oracle.priority = NoneStr)

\* C18: _parse_ai_response never raises on an oracle text whose RISK_SCORE or
\* PRIORITY sentinel line is missing or malformed: the result is the parsed
\* one (not the fallback of analyze_event for a raising parse), each missing
\* value is the heuristic value computed from the record's severity,
\* force_value and recurrence_count, and a value that is present is kept
\* (the number cut to 0..100, the level in upper case).
C18_MissingSentinelDefaults ==
    (service = "azure" /\ oracle.kind = "text"
       /\ (oracle.risk = <<>> \/ oracle.priority = NoneStr)) =>
        /\ ~raised
        /\ ai_result # <<>>
        /\ ai_result[1].token_usage = "usage"
        /\ ai_result[1].risk_score =
             IF oracle.risk = <<>> THEN <<HeuristicRisk(event)>>
             ELSE <<Min(oracle.risk[1], 100)>>
        /\ ai_result[1].priority =
             IF oracle.priority = NoneStr THEN HeuristicPriority(event)
             ELSE Upper(oracle.priority)

\* a text with a PRIORITY line and no RISK_SCORE line for a record of
\* severity high seen 6 times: 75 + 10 with the priority of the text; and the
\* converse case is reached as well (C18_WitnessRiskKept)
C18_Witness ==
    /\ SentinelMissing
    /\ oracle.risk = <<>>
    /\ oracle.priority = "low"
    /\ event.severity = "high"
    /\ event.recurrence_count = <<6>>
    /\ ai_result[1].risk_score = <<85>>
    /\ ai_result[1].priority = "LOW"

\* a text with a RISK_SCORE line and no PRIORITY line for a critical record
C18_WitnessRiskKept ==
    /\ SentinelMissing
    /\ oracle.risk = <<10>>
    /\ oracle.priority = NoneStr
    /\ event.severity = "critical"
    /\ ai_result[1].risk_score = <<10>>
    /\ ai_result[1].priority = "CRITICAL"

\* score_event returned for a critical record seen 150 times when the oracle
\* text carried RISK_SCORE 10
ChronicCriticalScored ==
    /\ service = "azure"
    /\ triage_result # <<>>
    /\ oracle.kind = "text"
    /\ oracle.risk = <<10>>
    /\ event.severity = "critical"
    /\ event.recurrence_count = <<150>>

\* C19 as stated: score_event on a record with severity critical and
\* recurrence_count 150, with the oracle returning risk_score 10, returns
\* score exactly 95 and priority CRITICAL.
C19_ChronicCriticalIs95 ==
    ChronicCriticalScored =>
        /\ triage_result[1].score = 95
        /\ triage_result[1].priority = "CRITICAL"

\* C19 amended: the priority is CRITICAL; the score is 95 when the similar
\* records do not earn the similarity boost (none given, or the first five
\* average at most 0.8), and 100 when they do.
C19_ChronicCriticalIs95WithoutBoost ==
    ChronicCriticalScored =>
        /\ triage_result[1].priority = "CRITICAL"
        /\ triage_result[1].score =
             IF SimilarityBoost(similar_events) THEN 100 ELSE 95

\* the scenario without similar records
C19_Witness ==
    /\ ChronicCriticalScored
    /\ similar_events = <<>>
    /\ triage_result[1].score = 95
    /\ triage_result[1].priority = "CRITICAL"

\* the scenario with very similar records: the boost lifts the score to 100
C19_WitnessBoosted ==
    /\ ChronicCriticalScored
    /\ SimilarityBoost(similar_events)
    /\ triage_result[1].score = 100


(***************************************************************************)
(* One more claim about find_similar_events, under SpecHistory             *)
(***************************************************************************)

\* the target is pool record a, and pool record b has the same non-empty
\* description and the same event_type under ids of its own
Twins(a, b) ==
    /\ a # b
    /\ current_event = all_events[a]
    /\ all_events[b].description = all_events[a].description
    /\ all_events[a].description # <<>>
    /\ all_events[b].event_type = all_events[a].event_type
    /\ all_events[a].event_type # Absent
    /\ ~HasTargetId(b)

\* the score pool record i carries when returned for the target
ScoreOf(i) == Round3(Similarity(current_event, all_events[i]))

\* the pool records the sort of line 98 puts before pool record b: those
\* that qualify with a higher score, or with the same score from an earlier
\* place in the pool
Ahead(b) ==
    {i \in DOMAIN all_events :
        /\ i # b
        /\ ~HasTargetId(i)
        /\ ReachesThreshold(i)
        /\ \/ ScoreOf(i) > ScoreOf(b)
           \/ ScoreOf(i) = ScoreOf(b) /\ i < b}

\* C20 as stated: for two pool records A and B with identical non-empty
\* description, the same event_type and different ids,
\* find_similar_events(A, pool) contains B with similarity score >= 0.7 and
\* ranks it first (and so for B and A, each pool record being the target in
\* some state).
C20_TwinsAreMutualTop ==
    found # <<>>
      => \A a, b \in DOMAIN all_events :
            Twins(a, b)
              => /\ found[1] # <<>>
                 /\ Src(1) = b
                 /\ Carried(1) >= 700

\* C20 amended: B scores at least 0.7 against A; it is returned right after
\* the pool records that score more against A, or the same from an earlier
\* place in the pool, when there are fewer than `limit` of those, and is not
\* returned otherwise. B is ranked first exactly when there is no such
\* record, as in a pool where no third record matches A as well as B does.
C20_TwinsRankedByScoreAndPlace ==
    found # <<>>
      => \A a, b \in DOMAIN all_events :
            Twins(a, b)
              => LET ahead == Cardinality(Ahead(b))
                 IN  /\ ScoreOf(b) >= 700
                     /\ ahead < limit
                          => /\ Len(found[1]) > ahead
                             /\ Src(ahead + 1) = b
                             /\ Carried(ahead + 1) = ScoreOf(b)
                     /\ ahead >= limit
                          => \A k \in DOMAIN found[1] : Src(k) # b

\* the scenario: B is the only pool record that matches A this well, behind
\* a record of another description, and is returned first
C20_Witness ==
    /\ found # <<>>
    /\ Len(all_events) = 3
    /\ Twins(3, 2)
    /\ Ahead(2) = {}
    /\ ReachesThreshold(1) /\ ~HasTargetId(1)
    /\ Len(found[1]) = 2
    /\ Src(1) = 2 /\ Src(2) = 1
    /\ Carried(1) >= 700

\* three records alike and a limit of 1: the first of the pool is returned
\* for the third, the second is not
C20_WitnessCrowdedOut ==
    /\ found # <<>>
    /\ limit = 1
    /\ Len(all_events) = 3
    /\ Twins(3, 2) /\ Twins(3, 1)
    /\ Len(found[1]) = 1
    /\ Src(1) = 1


(***************************************************************************)
(* Claims about the recurrence boost and the priority of score_event,      *)
(* under SpecTriage                                                        *)
(***************************************************************************)

\* what score_event reads of the record and of the oracle's result
EventRecurrence ==
    IF event.recurrence_count = <<>> THEN 0 ELSE event.recurrence_count[1]

AiScore ==
    IF ai_result[1].risk_score = <<>> THEN 50 ELSE ai_result[1].risk_score[1]

\* the oracle's score after the severity floor
FlooredScore ==
    CASE EventSeverity = "critical" -> Max(AiScore, 80)
      [] EventSeverity = "high" -> Max(AiScore, 60)
      [] OTHER -> AiScore

\* the boosts the design gives each recurrence tier
TierBoosts(recurrence) ==
    IF recurrence > 100 THEN 20..25
    ELSE IF recurrence > 50 THEN 10..20
    ELSE IF recurrence > 10 THEN 5..15
    ELSE IF recurrence > 1 THEN 5..10
    ELSE {0}

\* what the code adds for a severity and a recurrence_count, measured on an
\* oracle score low enough for no cut at 100
BoostOf(severity, recurrence) ==
    BaseScore(severity, 0, recurrence) - BaseScore(severity, 0, 0)

\* C22 as stated: score_event adds a recurrence boost to the floored oracle
\* score in every recurrence tier (> 100 adds 20 to 25, > 50 adds 10 to 20,
\* > 10 adds 5 to 15, > 1 adds 5 to 10, before the cut at 100), and the
\* critical tier gets a boost at least as large as any other severity tier
\* for the same recurrence_count.
C22_RecurrenceBoostTiers ==
    (triage_result # <<>> /\ EventRecurrence > 1
       /\ ~SimilarityBoost(similar_events) /\ FlooredScore >= 0)
      => /\ \E boost \in TierBoosts(EventRecurrence) :
               triage_result[1].score = Min(FlooredScore + boost, 100)
         /\ \A severity \in {"high", "med", "low"} :
               BoostOf("critical", EventRecurrence)
                 >= BoostOf(severity, EventRecurrence)

\* a record of severity low seen 6 times, oracle score 50: the score is 50,
\* no boost at all
C22_Witness ==
    /\ triage_result # <<>>
    /\ EventSeverity = "low"
    /\ EventRecurrence = 6
    /\ similar_events = <<>>
    /\ AiScore = 50
    /\ triage_result[1].score = 50

\* a record of severity low seen 51 times gets 15, more than the 10 a
\* critical record gets
C22_WitnessCriticalSmaller ==
    /\ triage_result # <<>>
    /\ EventSeverity = "low"
    /\ EventRecurrence = 51
    /\ similar_events = <<>>
    /\ AiScore = 50
    /\ triage_result[1].score = 65
    /\ BoostOf("critical", 51) = 10

\* the score for the same record, oracle result and similar records when the
\* record has been seen n times
ScoreAt(n) ==
    score_event([event EXCEPT !.recurrence_count = <<n>>], similar_events,
                ai_result[1], TRUE).score

\* C23 as stated: with severity, oracle result and similar-records list held
\* fixed, the score of score_event is non-decreasing in recurrence_count,
\* and never lower than the oracle's risk_score clamped to [0,100].
C23_MonotoneInRecurrence ==
    (triage_result # <<>> /\ event.recurrence_count # <<>>)
      => /\ \A n \in Recurrences :
               n <= EventRecurrence => ScoreAt(n) <= triage_result[1].score
         /\ triage_result[1].score >= Min(Max(AiScore, 0), 100)

\* a critical record seen 150 times for which analyze_event returned 100:
\* scored 95, while the same record seen 51 times is scored 100
C23_Witness ==
    /\ triage_result # <<>>
    /\ EventSeverity = "critical"
    /\ EventRecurrence = 150
    /\ similar_events = <<>>
    /\ AiScore = 100
    /\ triage_result[1].score = 95
    /\ ScoreAt(51) = 100

\* the threshold mapping of lines 106-115, as a table
ThresholdPriority(score) ==
    <<"LOW", "MEDIUM", "HIGH", "CRITICAL">>
      [1 + Cardinality({t \in {40, 60, 80} : score >= t})]

\* C29: for a record whose severity is neither critical nor high,
\* score_event returns the oracle's priority (in upper case) when the oracle
\* gave a non-empty one, and otherwise the threshold mapping of the final
\* clamped score (>= 80 CRITICAL, >= 60 HIGH, >= 40 MEDIUM, else LOW); the
\* mapping is used in no other case: a critical record is CRITICAL and a high
\* record is HIGH, or CRITICAL when the oracle says so, whatever the mapping
\* gives.
C29_ThresholdsAsLastResort ==
    triage_result # <<>>
      => triage_result[1].priority =
           (CASE EventSeverity = "critical" -> "CRITICAL"
              [] EventSeverity = "high" ->
                   (IF AiPriority = "CRITICAL" THEN "CRITICAL" ELSE "HIGH")
              [] AiPriority # "" -> AiPriority
              [] OTHER -> ThresholdPriority(triage_result[1].score))

\* a record of severity low without oracle priority, scored 65 by the
\* recurrence boost: HIGH by the mapping
C29_Witness ==
    /\ triage_result # <<>>
    /\ EventSeverity = "low"
    /\ AiPriority = ""
    /\ triage_result[1].score = 65
    /\ triage_result[1].priority = "HIGH"

\* the oracle's priority wins over the mapping for such a record, and the
\* mapping is not consulted for a high record
C29_WitnessOracleWins ==
    /\ triage_result # <<>>
    /\ EventSeverity = "low"
    /\ AiPriority = "LOW"
    /\ triage_result[1].score >= 80
    /\ triage_result[1].priority = "LOW"


\* the local heuristic has answered for a stored record (one that
\* normalize_event built) of severity critical
HeuristicForCritical ==
    /\ service = "azure" /\ ~client
    /\ ai_result # <<>>
    /\ event \in StoredEvents
    /\ event.severity = "critical"

\* what the local heuristic gives the same record with severity low
RiskIfLow ==
    mock_analysis([event EXCEPT !.severity = "low"],
                  similar_events).risk_score[1]

\* C28 as stated: with the oracle unavailable, the local heuristic gives a
\* record produced by normalize_event with severity critical the priority
\* CRITICAL and a risk_score strictly higher than the same record with
\* severity low, all other fields equal.
C28_HeuristicFollowsSeverity ==
    HeuristicForCritical
      => /\ ai_result[1].priority = "CRITICAL"
         /\ ai_result[1].risk_score[1] > RiskIfLow

\* a critical record whose description does not say so: MEDIUM, and the same
\* risk_score as with severity low
C28_Witness ==
    /\ HeuristicForCritical
    /\ ~DescriptionHasCritical(event.description)
    /\ ai_result[1].priority = "MEDIUM"
    /\ ai_result[1].risk_score[1] = RiskIfLow


(***************************************************************************)
(* More claims about normalize_event, under SpecNormalize                  *)
(***************************************************************************)

\* C26 as stated: in _detect_collision_type a specific error-code literal
\* overrides keyword inference: a raw observation whose error_code contains
\* SRVO-324 gets collision_type hard_impact whatever keywords its
\* description contains.
C26_ErrorCodeOverridesKeywords ==
    (ReturnedRecord /\ raw_event.error_code = "SRVO-324")
      => Normalized.collision_type = "hard_impact"

\* SRVO-324 with a description that has a soft-collision keyword: the keyword
\* wins
C26_Witness ==
    /\ ReturnedRecord
    /\ raw_event.error_code = "SRVO-324"
    /\ raw_event.description = "light contact"
    /\ Normalized.collision_type = "soft_collision"

\* the note of _generate_notes is among the record's notes
HasNote(note) ==
    \E i \in DOMAIN Normalized.notes : Normalized.notes[i] = note

\* the raw timestamp is present and matches none of the known formats
Unparseable == raw_event.timestamp = "yesterday"

\* C27 as stated: when the raw timestamp is present but matches none of the
\* known formats, normalize_event sets the record's timestamp to the current
\* time and the notes contain the timestamp-inferred caveat; the same note
\* is emitted when the raw timestamp is absent.
C27_TimestampFallbackNoted ==
    (/\ ReturnedRecord
     /\ Unparseable \/ raw_event.timestamp \in {Absent, NoneStr})
      => /\ Normalized.timestamp = Now
         /\ HasNote(TimestampNote)

\* an unparseable timestamp: the current time is taken and no note says so
C27_Witness ==
    /\ ReturnedRecord
    /\ Unparseable
    /\ Normalized.timestamp = Now
    /\ ~HasNote(TimestampNote)

\* an absent timestamp: the current time is taken and the note is there
C27_WitnessAbsent ==
    /\ ReturnedRecord
    /\ raw_event.timestamp = Absent
    /\ Normalized.timestamp = Now
    /\ HasNote(TimestampNote)


-----------------------------------------------------------------------------
(* SchemaService.validate_schema on records of any shape                   *)

\* the records handed to validate_schema: each required field missing, null,
\* empty, well-formed or malformed (record_id <<>> stands for a missing one)
CandidateRecords ==
    [record_id : {<<>>, <<1>>},
     timestamp : {Absent, NoneStr, "", "2025-11-17T09:59:45", "yesterday"},
     joint : {Absent, "", "J3"},
     severity : {Absent, "low", "ALERT"},
     status : {Absent, "resolved", "on hold"},
     force_value : {<<>>, <<-1>>, <<0>>, <<10000>>, <<10001>>}]

InitValidate ==
    /\ candidate \in CandidateRecords
    /\ validation = <<>>
    /\ raw_event = <<>> /\ normalized = <<>>
    /\ TriageIdle /\ DedupIdle /\ HistoryIdle /\ StoreIdle

ValidateSchema ==
    /\ validation = <<>>
    /\ validation' = <<validate_schema(candidate)>>
    /\ UNCHANGED <<raw_event, normalized, candidate>>
    /\ UNCHANGED <<triageVars, dedupVars, historyVars, storeVars, cacheVars>>

NextValidate == ValidateSchema

SpecValidate == InitValidate /\ [][NextValidate]_vars

(* Claims about validate_schema, under SpecValidate *)

\* the defects the design names: a required field missing (or empty), a
\* timestamp that is no ISO 8601 one, a severity or status outside its enum,
\* a force outside [0,10000]
Defective(rec) ==
    \/ rec.record_id = <<>>
    \/ \E f \in {"timestamp", "joint", "severity", "status"} :
          rec[f] \in {Absent, NoneStr, ""}
    \/ rec.timestamp # "2025-11-17T09:59:45"
    \/ rec.severity \notin {"low", "med", "high", "critical"}
    \/ rec.status \notin {"pending_inspection", "under_repair", "resolved"}
    \/ rec.force_value # <<>> /\ rec.force_value[1] \notin 0..10000

\* C30 as stated: validate_schema never raises on a malformed record: for a
\* record missing a required field, or with a non-ISO timestamp, a severity
\* or status outside its enum, or a force_value outside [0,10000], it
\* returns (False, errors) with a non-empty error list, and it returns
\* (True, []) exactly when none of these defects is present.
C30_ValidateNeverRaises ==
    validation # <<>>
      => /\ ~validation[1].raised
         /\ Defective(candidate)
              => ~validation[1].is_valid /\ validation[1].errors # {}
         /\ ~Defective(candidate)
              => validation[1].is_valid /\ validation[1].errors = {}

\* a record without the timestamp key: normalized_event["timestamp"] raises
\* KeyError, which the except clause of line 357 does not catch
C30_Witness ==
    /\ validation # <<>>
    /\ candidate.timestamp = Absent
    /\ candidate.record_id # <<>>
    /\ validation[1].raised

\* apart from the missing timestamp key, the verdict is as the design says
C30_VerdictWhenTimestampKeyPresent ==
    (validation # <<>> /\ candidate.timestamp # Absent)
      => /\ ~validation[1].raised
         /\ validation[1].is_valid = ~Defective(candidate)
         /\ validation[1].is_valid = (validation[1].errors = {})


(***************************************************************************)
(* A claim about calculate_deduplication_stats, under SpecDedup            *)
(***************************************************************************)

\* the (joint, calendar date) groups of the list, by the key of
\* _deduplicate_events, and the number of records in one
Buckets == {Bucket(events[i]) : i \in DOMAIN events}
MembersOf(bucket) ==
    Cardinality({i \in DOMAIN events : Bucket(events[i]) = bucket})

\* C25 as stated: for every non-empty record list,
\* calculate_deduplication_stats reports total_events equal to the list
\* length, unique_events equal to the number of distinct (joint, calendar
\* date) groups formed with the key of _deduplicate_events, duplicates equal
\* to total_events minus unique_events, and a recurrence_stats entry for
\* exactly the groups with more than one member.
C25_StatsCountGroups ==
    (dedup_stats # <<>> /\ events # <<>>)
      => /\ dedup_stats[1].total_events = Len(events)
         /\ dedup_stats[1].unique_events = Cardinality(Buckets)
         /\ dedup_stats[1].duplicates
              = dedup_stats[1].total_events - dedup_stats[1].unique_events
         /\ dedup_stats[1].recurrence_stats
              = {<<b, MembersOf(b)>> : b \in {c \in Buckets : MembersOf(c) > 1}}

\* three records of J3, two of one day and one of the next: two groups, one
\* of them with two members, and the report says no group at all
C25_Witness ==
    /\ dedup_stats # <<>>
    /\ Len(events) = 3
    /\ Cardinality(Buckets) = 2
    /\ \E b \in Buckets : MembersOf(b) = 2
    /\ dedup_stats[1].total_events = 3
    /\ dedup_stats[1].unique_events = 0
    /\ dedup_stats[1].duplicates = 3
    /\ dedup_stats[1].recurrence_stats = {}


(***************************************************************************)
(* A claim about recurrence_count in events_store, under SpecStore         *)
(***************************************************************************)

\* the (joint, calendar date) bucket of a stored record, and the number of
\* stored records in the bucket of the i-th
StoredBucket(rec) == <<rec.joint, DateKey(rec.timestamp)>>
SharingBucket(i) ==
    Cardinality({j \in DOMAIN events_store :
                    StoredBucket(events_store[j])
                      = StoredBucket(events_store[i])})

\* C24 as stated: after any sequence of process_upload and batch_process_all
\* calls, every record in events_store has a recurrence_count >= 1 equal to
\* the number of records in events_store that share its (joint, calendar
\* date) bucket, also when records of one bucket arrived in different
\* uploads.
C24_RecurrenceCountsStore ==
    \A i \in DOMAIN events_store :
        /\ events_store[i].recurrence_count >= 1
        /\ events_store[i].recurrence_count = SharingBucket(i)

\* two uploads of one observation each, same joint and day: both records
\* are stored with recurrence_count 1
C24_Witness ==
    /\ last_call.op = "process_upload"
    /\ last_call.status = "success"
    /\ last_call.before = 1
    /\ Len(events_store) = 2
    /\ StoredBucket(events_store[1]) = StoredBucket(events_store[2])
    /\ events_store[1].recurrence_count = 1
    /\ events_store[2].recurrence_count = 1

\* within what one call stores, the count is the size of the bucket: a
\* store filled by one call
C24_CountsWithinOneCall ==
    (last_call.op \in {"process_upload", "batch_process_all"}
       /\ last_call.status = "success" /\ last_call.before = 0)
      => C24_RecurrenceCountsStore


-----------------------------------------------------------------------------
(* Two score_event invocations in one event loop                           *)
(* (src/backend/services/triage_service.py, azure_ai_service.py)           *)

\* The records of the two invocations: they differ, and two of them have the
\* same fingerprint when they differ in recurrence_count only.
ConcurrentRecords ==
    {[event_id |-> id, joint |-> "J3", severity |-> sev,
      force_value |-> <<>>, recurrence_count |-> <<n>>,
      error_code |-> "SRVO-324", description |-> <<"torque", "limit">>] :
        id \in {"e1", "e2"}, sev \in {"low", "critical"}, n \in {1, 150}}

\* the similar-records lists handed to the invocations
ConcurrentSimilar ==
    {<<>>, <<[similarity_score |-> 900, severity |-> "critical"]>>}

\* what the oracle answers to the prompt built for a record, when asked
ConcurrentAnswers ==
    {[kind |-> "error", risk |-> <<>>, priority |-> NoneStr,
      sections |-> FALSE],
     [kind |-> "text", risk |-> <<>>, priority |-> NoneStr,
      sections |-> TRUE],
     [kind |-> "text", risk |-> <<10>>, priority |-> "LOW",
      sections |-> TRUE]}

\* an invocation before its first step
Invocation(ev, similar, answer) ==
    [event |-> ev, similar |-> similar, answer |-> answer, pc |-> "called",
     ai |-> <<>>, result |-> <<>>]

InitConcurrent ==
    /\ service = "azure"
    /\ client \in BOOLEAN
    /\ response_cache = <<>>
    /\ event = <<>> /\ similar_events = <<>> /\ oracle = NotCalled
    /\ ai_result = <<>> /\ triage_result = <<>> /\ raised = FALSE
    /\ \E e1, e2 \in ConcurrentRecords, similar \in ConcurrentSimilar,
          a1, a2 \in ConcurrentAnswers :
         /\ e1 # e2
         /\ calls = <<Invocation(e1, similar, a1),
                      Invocation(e2, similar, a2)>>
    /\ DedupIdle /\ HistoryIdle /\ SchemaIdle /\ StoreIdle

\* analyze_event for one invocation on a given cache.  Its body has no await
\* (the chat-completions call of lines 116-124 is a blocking call), so it
\* runs from the cache look-up to the cache store without another
\* invocation in between.
AnalyzeFor(call, cache) ==
    analyze_event(client, cache, call.event, call.similar, "triage",
                  IF client /\ ~CacheHas(cache, generate_cache_key(call.event))
                    THEN call.answer ELSE NotCalled)

\* lines 17-33 of score_event: up to the return of the awaited analyze_event
AwaitAnalyze ==
    \E i \in DOMAIN calls :
        /\ calls[i].pc = "called"
        /\ \E a \in {AnalyzeFor(calls[i], response_cache)} :
              /\ response_cache' = a.cache
              /\ calls' = [calls EXCEPT ![i].pc = "analyzed",
                                        ![i].ai = <<a.result>>]
        /\ UNCHANGED <<service, client, event, similar_events, oracle,
                       ai_result, triage_result, raised>>
        /\ UNCHANGED <<dedupVars, historyVars, schemaVars, storeVars,
                       cacheVars>>

\* lines 35-104 of score_event: the override logic and the return
Override ==
    \E i \in DOMAIN calls :
        /\ calls[i].pc = "analyzed"
        /\ calls' = [calls EXCEPT
                       ![i].pc = "returned",
                       ![i].result = <<score_event(calls[i].event,
                                                   calls[i].similar,
                                                   calls[i].ai[1], client)>>]
        /\ UNCHANGED <<service, client, response_cache, event,
                       similar_events, oracle, ai_result, triage_result,
                       raised>>
        /\ UNCHANGED <<dedupVars, historyVars, schemaVars, storeVars,
                       cacheVars>>

NextConcurrent == AwaitAnalyze \/ Override

SpecConcurrent == InitConcurrent /\ [][NextConcurrent]_vars

(* Claims about concurrent score_event invocations, under SpecConcurrent *)

\* the TriageResults of the two invocations when `first` runs to its return
\* before the other starts, on the empty cache
OneAfterTheOther(first) ==
    LET second == 3 - first
        a1 == AnalyzeFor(calls[first], <<>>)
        a2 == AnalyzeFor(calls[second], a1.cache)
    IN  [i \in {first, second} |->
           IF i = first
             THEN score_event(calls[first].event, calls[first].similar,
                              a1.result, client)
           ELSE score_event(calls[second].event, calls[second].similar,
                            a2.result, client)]

BothReturned == \A i \in DOMAIN calls : calls[i].pc = "returned"

SameFingerprint ==
    generate_cache_key(calls[1].event) = generate_cache_key(calls[2].event)

\* the results are those of running the invocations in the order `first`
ResultsAsIn(first) ==
    \A i \in DOMAIN calls : calls[i].result[1] = OneAfterTheOther(first)[i]

\* no step changes the record or the similar-records list of an invocation
ArgumentsKept ==
    \A i \in DOMAIN calls :
        /\ calls'[i].event = calls[i].event
        /\ calls'[i].similar = calls[i].similar

\* C21 as stated: two score_event invocations on different records that
\* interleave at their await points return the same TriageResults as running
\* them one after the other in either order; an invocation modifies neither
\* its own record, nor any other record, nor the pool.
C21_InterleavingAsEitherOrder ==
    /\ [](BothReturned => ResultsAsIn(1) /\ ResultsAsIn(2))
    /\ [][ArgumentsKept]_vars

\* two records of one fingerprint, seen once and 150 times, the oracle
\* answering without sentinels: the invocation that comes second is served
\* the other's cached result, so the second record is scored 50 here and 75
\* when it goes first
C21_Witness ==
    /\ BothReturned
    /\ client
    /\ SameFingerprint
    /\ calls[1].event.recurrence_count = <<1>>
    /\ calls[2].event.recurrence_count = <<150>>
    /\ calls[1].event.severity = "low"
    /\ calls[1].similar = <<>>
    /\ calls[1].answer.kind = "text" /\ calls[1].answer.risk = <<>>
    /\ calls[2].answer = calls[1].answer
    /\ ResultsAsIn(1)
    /\ calls[2].result[1].score = 50
    /\ OneAfterTheOther(2)[2].score = 75

\* what holds: every interleaving gives the results of one of the two
\* orders, and of both when the fingerprints differ or there is no client
C21_InterleavingAsSomeOrder ==
    BothReturned
      => /\ ResultsAsIn(1) \/ ResultsAsIn(2)
         /\ (~SameFingerprint \/ ~client) => ResultsAsIn(1) /\ ResultsAsIn(2)

====
